---- MODULE Spec2Model ----
(***************************************************************************)
(* eye-overlay: the floating picture-in-picture widget (MeetPip) and the   *)
(* gaze/cursor repositioning policy of its parent (EyeTracker).            *)
(*                                                                         *)
(* Pixel quantities (position, velocity, target) are fixed-point integers  *)
(* with Scale units per pixel; the factors 0.88, 0.3, 0.08, 0.85 are kept  *)
(* as hundredths.  Pointer coordinates, widget dimensions and the viewport *)
(* are whole pixels.  Time is in milliseconds.                             *)
(*                                                                         *)
(* One action is one browser task: an event handler, a timer callback, an  *)
(* animation frame or a promise completion, together with the React render *)
(* and the effects that its state updates cause.                           *)
(***************************************************************************)
EXTENDS Integers, FiniteSets, Sequences, TLC

(* ------------------------------------------------------------------ *)
(* Program constants                                                  *)
(* ------------------------------------------------------------------ *)
FRICTION == 88
BOUNCE_DAMPING == 30
VIEWPORT_PADDING == 24
MAX_VELOCITY == 15
EYE_TRACKING_SPRING == 8
SPRING_DAMPING == 85
MIN_WIDTH == 240
MAX_WIDTH == 640
MIN_HEIGHT == 180
MAX_HEIGHT == 480
InitialWidth == 320
InitialHeight == 280
DebounceMs == 150
GraceMs == 1000
ReEngageMs == 10000
CenterThreshold == 5

(* Fixed-point resolution of the pixel-valued numbers: units per pixel. *)
Scale == 1000

(* ------------------------------------------------------------------ *)
(* Bounds of the model                                                *)
(* ------------------------------------------------------------------ *)
MaxGestures == 2
MaxDrags == 1
MaxHandles == 1
MaxSessions == 2
MaxPolicySessions == 1
MaxEntries == 2
MaxGestureEntries == 1
MaxViewportResizes == 1
MaxPolicyFrames == 3
MaxGestureFrames == 1
MaxGazeChanges == 3
MaxIds == 3
MaxSettleSteps == 46
MaxSpringSteps == 40

(* The environment's inputs. *)
Desktop == [width |-> 1200, height |-> 800]
Compact == [width |-> 900, height |-> 700]
Viewports == {Desktop, Compact}
Pointers == {<<100, 400>>, <<500, 100>>, <<850, 650>>}
EdgePointers == {<<10, 400>>, <<300, 690>>}
MoveDts == {16}
GazeXs == {30, 45, 50, 55, 70}
AdvanceSteps == {75}
CooldownSteps == {4000}

None == "none"

(* Handles of frames and timeouts; NoId is the null ref. *)
NoId == 0
Ids == 1..MaxIds

(* A timestamp ref that holds null. *)
NoTime == -1

(* A budget the environment does not limit. *)
NoLimit == -1

(* targetPositionRef: null, or a point. *)
NoTarget == [set |-> FALSE, x |-> 0, y |-> 0]

Target(x, y) == [set |-> TRUE, x |-> x, y |-> y]

(* ------------------------------------------------------------------ *)
(* Arithmetic                                                         *)
(* ------------------------------------------------------------------ *)
Abs(n) == IF n < 0 THEN -n ELSE n

Min(a, b) == IF a < b THEN a ELSE b

Max(a, b) == IF a > b THEN a ELSE b

(* n * num / den, rounded toward zero. *)
MulDiv(n, num, den) ==
    IF n >= 0 THEN (n * num) \div den ELSE -(((-n) * num) \div den)

Pct(n, p) == MulDiv(n, p, 100)

RECURSIVE SqrtSearch(_, _, _)
SqrtSearch(n, lo, hi) ==
    IF lo >= hi THEN lo
    ELSE LET mid == (lo + hi + 1) \div 2
         IN  IF mid * mid <= n THEN SqrtSearch(n, mid, hi)
             ELSE SqrtSearch(n, lo, mid - 1)

(* Math.sqrt, rounded down. *)
Sqrt(n) == SqrtSearch(n, 0, 40000)

(* The smallest handle the browser has not handed out among `used`. *)
FreshId(used) == CHOOSE i \in Ids : i \notin used /\ \A j \in Ids : j < i => j \in used

(* ------------------------------------------------------------------ *)
(* State                                                              *)
(* ------------------------------------------------------------------ *)
VARIABLES
    (* MeetPip *)
    dimensions,            \* currentDimensionsRef: [width, height], fixed-point
    position,              \* currentPositionRef: [x, y], fixed-point
    velocity,              \* velocityRef
    targetPosition,        \* targetPositionRef: NoTarget or Target(x, y)
    isDragging,
    isResizing,
    animationFrameRef,     \* handle of the physics frame, or NoId
    physFrames,            \* physics frames the browser holds scheduled
    prevSideRef,
    dragStartPosRef,       \* [x, y, offsetX, offsetY]
    lastMousePosRef,       \* [x, y]
    resizeStartRef,        \* [width, height, anchorX, anchorY, startPosX, startPosY]
    viewport,              \* window.innerWidth / innerHeight
    (* EyeTracker *)
    ballSide,              \* the widget's anchor side (prop side)
    targetVertical,
    targetVerticalRef,
    cursorSide,
    cursorVertical,
    gazeSide,
    lastDefinitiveGazeSide,
    isCursorHoveringPip,
    pipPosition,           \* [side, vertical] last reported by the widget
    isUserControllingPip,
    isTracking,
    isLoading,
    error,
    webcam,                \* getUserMedia: "pending", "on" (isWebcamOn) or "failed"
    reEngageTimerRef,
    reEngageTimers,        \* pending re-engage timeouts: [id, rem]
    cursorMoveDebounceRef,
    debounceTimers,        \* pending debounce timeouts: [id, rem, vertical]
    prevCursorSideRef,
    gazeAtPipStartTimeRef, \* ms since the recorded timestamp (saturating), or NoTime
    animationRef,          \* handle of the detect frame, or NoId
    detectFrames,          \* detect frames the browser holds scheduled
    inflight,              \* estimateFaces calls not yet settled
    (* the environment's budget of inputs *)
    budget,
    (* history, read only by the properties *)
    hist

widgetVars ==
    <<dimensions, position, velocity, targetPosition, isDragging, isResizing,
      animationFrameRef, physFrames, prevSideRef, dragStartPosRef,
      lastMousePosRef, resizeStartRef, viewport>>

policyVars ==
    <<ballSide, targetVertical, targetVerticalRef, cursorSide, cursorVertical,
      isCursorHoveringPip, pipPosition, isUserControllingPip,
      reEngageTimerRef, reEngageTimers, cursorMoveDebounceRef, debounceTimers,
      prevCursorSideRef, gazeAtPipStartTimeRef>>

trackVars ==
    <<gazeSide, lastDefinitiveGazeSide, isTracking, isLoading, error,
      webcam, animationRef, detectFrames, inflight>>

vars == <<widgetVars, policyVars, trackVars, budget, hist>>

(* ------------------------------------------------------------------ *)
(* MeetPip: geometry                                                  *)
(* ------------------------------------------------------------------ *)
Px(n) == n * Scale

Half(n) == n \div 2

OtherSide(s) == IF s = "left" THEN "right" ELSE "left"

(* The bounds with the padding taken off the far edge once only. *)
getViewportBoundsOnePadding(side, dims, vp) ==
    LET minY == Px(VIEWPORT_PADDING) + Half(dims.height) - Half(Px(vp.height))
        maxY == Half(Px(vp.height)) - Px(VIEWPORT_PADDING) - Half(dims.height)
    IN  IF side = "left"
        THEN [minX |-> 0,
              maxX |-> Px(vp.width) - dims.width - Px(VIEWPORT_PADDING),
              minY |-> minY, maxY |-> maxY]
        ELSE [minX |-> -(Px(vp.width) - Px(VIEWPORT_PADDING) - dims.width),
              maxX |-> 0,
              minY |-> minY, maxY |-> maxY]

(* getViewportBounds, lines 102-136. *)
getViewportBounds(side, dims, vp) ==
    LET minY == Px(VIEWPORT_PADDING) + Half(dims.height) - Half(Px(vp.height))
        maxY == Half(Px(vp.height)) - Px(VIEWPORT_PADDING) - Half(dims.height)
    IN  IF side = "left"
        THEN [minX |-> 0,
              maxX |-> Px(vp.width) - dims.width - Px(VIEWPORT_PADDING) * 2,
              minY |-> minY, maxY |-> maxY]
        ELSE [minX |-> -(Px(vp.width) - Px(VIEWPORT_PADDING) * 2 - dims.width),
              maxX |-> 0,
              minY |-> minY, maxY |-> maxY]

(* clampPosition with the clamp left out. *)
clampPositionOff(pos, b) == pos

clampPosition(pos, b) ==
    [x |-> Max(b.minX, Min(b.maxX, pos.x)),
     y |-> Max(b.minY, Min(b.maxY, pos.y))]

(* The zone updateDOM and handleDragEnd report: the third of the screen *)
(* that holds the widget's centre.                                      *)
ReportedZone(side, pos, dims, vp) ==
    LET pipCenterX ==
            IF side = "left"
            THEN Px(VIEWPORT_PADDING) + Half(dims.width) + pos.x
            ELSE Px(vp.width) - Px(VIEWPORT_PADDING) - Half(dims.width) + pos.x
    IN  [side |-> IF 3 * pipCenterX < Px(vp.width) THEN "left"
                  ELSE IF 3 * pipCenterX > 2 * Px(vp.width) THEN "right"
                  ELSE side,
         vertical |-> IF 6 * pos.y < -Px(vp.height) THEN "top"
                      ELSE IF 6 * pos.y > Px(vp.height) THEN "bottom"
                      ELSE "center"]

(* The thirds handleMouseMove sorts the pointer into. *)
CursorZone(p, vp) ==
    [side |-> IF 3 * p[1] < vp.width THEN "left"
              ELSE IF 3 * p[1] > 2 * vp.width THEN "right"
              ELSE None,
     vertical |-> IF 3 * p[2] < vp.height THEN "top"
                  ELSE IF 3 * p[2] > 2 * vp.height THEN "bottom"
                  ELSE "center"]

(* ------------------------------------------------------------------ *)
(* MeetPip: physics                                                   *)
(* ------------------------------------------------------------------ *)
ClampVelocity(v) == Max(-Px(MAX_VELOCITY), Min(Px(MAX_VELOCITY), v))

(* Friction that takes nothing off the velocity. *)
FrictionOff(v) == v

(* Friction with the factor 0.90. *)
FrictionWeak(v) == Pct(v, 90)

(* Lines 258-259: one component of the velocity after friction. *)
Friction(v) == Pct(v, FRICTION)

(* The spring whose snap leaves the target in place. *)
SpringStepKeepsTarget(pos, vel, target) ==
    IF ~target.set
    THEN [pos |-> pos, vel |-> vel, target |-> NoTarget]
    ELSE LET dx == target.x - pos.x
             dy == target.y - pos.y
             vx == Pct(vel.x + Pct(dx, EYE_TRACKING_SPRING), SPRING_DAMPING)
             vy == Pct(vel.y + Pct(dy, EYE_TRACKING_SPRING), SPRING_DAMPING)
         IN  IF /\ Abs(dx) < Px(1) /\ Abs(dy) < Px(1)
                /\ 10 * Abs(vx) < 3 * Scale /\ 10 * Abs(vy) < 3 * Scale
             THEN [pos |-> [x |-> target.x, y |-> target.y],
                   vel |-> [x |-> 0, y |-> 0], target |-> target]
             ELSE [pos |-> pos, vel |-> [x |-> vx, y |-> vy], target |-> target]

(* Lines 231-251: the spring toward the target, and the snap onto it. *)
SpringStep(pos, vel, target) ==
    IF ~target.set
    THEN [pos |-> pos, vel |-> vel, target |-> NoTarget]
    ELSE LET dx == target.x - pos.x
             dy == target.y - pos.y
             vx == Pct(vel.x + Pct(dx, EYE_TRACKING_SPRING), SPRING_DAMPING)
             vy == Pct(vel.y + Pct(dy, EYE_TRACKING_SPRING), SPRING_DAMPING)
         IN  IF /\ Abs(dx) < Px(1) /\ Abs(dy) < Px(1)
                /\ 10 * Abs(vx) < 3 * Scale /\ 10 * Abs(vy) < 3 * Scale
             THEN [pos |-> [x |-> target.x, y |-> target.y],
                   vel |-> [x |-> 0, y |-> 0], target |-> NoTarget]
             ELSE [pos |-> pos, vel |-> [x |-> vx, y |-> vy], target |-> target]

(* Lines 265-287: one axis against its bounds; the velocity bounces. *)
BounceAxis(p, v, lo, hi) ==
    IF p < lo THEN [p |-> lo, v |-> -Pct(v, BOUNCE_DAMPING), bounced |-> TRUE]
    ELSE IF p > hi THEN [p |-> hi, v |-> -Pct(v, BOUNCE_DAMPING), bounced |-> TRUE]
    ELSE [p |-> p, v |-> v, bounced |-> FALSE]

(* updatePhysics, lines 226-313: the state after one frame and whether *)
(* the next frame is requested.                                        *)
updatePhysics(pos, vel, target, b) ==
    LET s == SpringStep(pos, vel, target)
        px == s.pos.x + s.vel.x
        py == s.pos.y + s.vel.y
        fx == ClampVelocity(Friction(s.vel.x))
        fy == ClampVelocity(Friction(s.vel.y))
        ax == BounceAxis(px, fx, b.minX, b.maxX)
        ay == BounceAxis(py, fy, b.minY, b.maxY)
        stop == /\ 100 * Abs(ax.v) < 5 * Scale
                /\ 100 * Abs(ay.v) < 5 * Scale
                /\ ~s.target.set
        vx == IF stop THEN 0 ELSE ax.v
        vy == IF stop THEN 0 ELSE ay.v
    IN  [position |-> [x |-> ax.p, y |-> ay.p],
         velocity |-> [x |-> vx, y |-> vy],
         targetPosition |-> s.target,
         bounced |-> ax.bounced \/ ay.bounced,
         again |-> \/ 1000 * Abs(vx) > 5 * Scale
                   \/ 1000 * Abs(vy) > 5 * Scale
                   \/ s.target.set]

(* The conversion that leaves the widget's width out of the x under *)
(* the right anchor.                                                *)
newPosXNoWidth(oldSide, newSide, x, dims, vp) ==
    LET base == Px(VIEWPORT_PADDING)
        absoluteScreenX ==
            IF oldSide = "left" THEN base + x
            ELSE Px(vp.width) - base - dims.width + x
    IN  IF newSide = "left" THEN absoluteScreenX - base
        ELSE absoluteScreenX - Px(vp.width) + base

(* Lines 600-622 of the side-change effect: x under the old anchor *)
(* taken to the screen and from there to x under the new anchor.   *)
newPosX(oldSide, newSide, x, dims, vp) ==
    LET base == Px(VIEWPORT_PADDING)
        absoluteScreenX ==
            IF oldSide = "left" THEN base + x
            ELSE Px(vp.width) - base - dims.width + x
    IN  IF newSide = "left" THEN absoluteScreenX - base
        ELSE absoluteScreenX - Px(vp.width) + base + dims.width

(* Lines 624-628: the position under the new anchor. *)
convertedPos(oldSide, newSide, pos, dims, vp) ==
    [x |-> newPosX(oldSide, newSide, pos.x, dims, vp), y |-> pos.y]

(* Lines 596-675 of the side-change effect: the position re-expressed *)
(* under the new anchor, the spring target and the seeded velocity.   *)
SideChange(oldSide, newSide, pos, dims, vp, tv) ==
    LET convertedX == convertedPos(oldSide, newSide, pos, dims, vp).x
        targetY ==
            IF tv = "top"
            THEN Px(VIEWPORT_PADDING) + Half(dims.height) - Half(Px(vp.height))
            ELSE IF tv = "bottom"
            THEN Half(Px(vp.height)) - Px(VIEWPORT_PADDING) - Half(dims.height)
            ELSE 0
        dx == 0 - convertedX
        dy == targetY - pos.y
        (* the distance is taken in tenths of a pixel *)
        ddx == MulDiv(dx, 10, Scale)
        ddy == MulDiv(dy, 10, Scale)
        distance == Sqrt(ddx * ddx + ddy * ddy)
        initialSpeed == Max((distance * Scale) \div 100, Px(2))
    IN  [position |-> convertedPos(oldSide, newSide, pos, dims, vp),
         targetPosition |-> Target(0, targetY),
         velocity |->
            IF distance > 5
            THEN [x |-> MulDiv(ddx, initialSpeed, distance),
                  y |-> MulDiv(ddy, initialSpeed, distance)]
            ELSE [x |-> 0, y |-> 0]]

(* startPhysics that requests a frame without cancelling the pending one. *)
startPhysicsNoCancel(frames, ref) ==
    LET id == FreshId(frames \cup {ref})
    IN  [frames |-> frames \cup {id}, ref |-> id]

(* startPhysics, lines 316-322: cancel the frame the ref names, request *)
(* a new one.  The result is the pending frames and the ref.            *)
startPhysics(frames, ref) ==
    LET kept == frames \ {ref}
        id == FreshId(kept \cup {ref})
    IN  [frames |-> kept \cup {id}, ref |-> id]

(* A gesture start that clears the ref and cancels no frame. *)
stopPhysicsKeep(frames, ref) == [frames |-> frames, ref |-> NoId]

(* Cancel-and-clear of handleResizeStart / handleDragStart. *)
stopPhysics(frames, ref) == [frames |-> frames \ {ref}, ref |-> NoId]

(* The container's bounding rectangle at a resize start: the screen *)
(* coordinates of the widget's top-right corner (lines 347-348).     *)
AnchorCorner(side, pos, dims, vp) ==
    [x |-> IF side = "left"
           THEN Px(VIEWPORT_PADDING) + pos.x + dims.width
           ELSE Px(vp.width) - Px(VIEWPORT_PADDING) + pos.x,
     y |-> Half(Px(vp.height)) + pos.y - Half(dims.height)]

(* The pointer over the middle of the widget, in whole pixels: where a *)
(* drag takes hold of it (the wrapper and container, lines 763-790).  *)
WidgetCentre(side, pos, dims, vp) ==
    LET c == AnchorCorner(side, pos, dims, vp)
    IN  <<(c.x - Half(dims.width)) \div Scale, (c.y + Half(dims.height)) \div Scale>>

(* handleDragMove, lines 442-463: the clamped position under the pointer *)
(* and the fling velocity from the last two samples, dt in ms.           *)
DragMove(p, dt, start, last, b) ==
    [position |-> clampPosition([x |-> start.offsetX + Px(p[1] - start.x),
                                 y |-> start.offsetY + Px(p[2] - start.y)], b),
     velocity |-> [x |-> MulDiv((p[1] - last.x) * 1667, Scale, 400 * Max(1, dt)),
                   y |-> MulDiv((p[2] - last.y) * 1667, Scale, 400 * Max(1, dt))]]

(* handleResizeMove, lines 362-378. *)
ResizeMove(p, side, start) ==
    LET finalWidth == Max(Px(MIN_WIDTH), Min(Px(MAX_WIDTH), start.anchorX - Px(p[1])))
        finalHeight == Max(Px(MIN_HEIGHT), Min(Px(MAX_HEIGHT), Px(p[2]) - start.anchorY))
        widthDelta == finalWidth - start.width
        heightDelta == finalHeight - start.height
    IN  [dimensions |-> [width |-> finalWidth, height |-> finalHeight],
         position |-> [x |-> IF side = "left" THEN start.startPosX - widthDelta
                             ELSE start.startPosX,
                       y |-> start.startPosY + Half(heightDelta)]]

(* ------------------------------------------------------------------ *)
(* EyeTracker: the policy's pure parts                                *)
(* ------------------------------------------------------------------ *)
(* The classifier with the edges of the dead zone counted as left and *)
(* right.                                                             *)
ClassifyGazeInclusive(x) ==
    IF x <= 50 - CenterThreshold THEN "left"
    ELSE IF x >= 50 + CenterThreshold THEN "right"
    ELSE None

(* Lines 353-362: the gaze zone of normalizedX, given in hundredths. *)
ClassifyGaze(x) ==
    IF x < 50 - CenterThreshold THEN "left"
    ELSE IF x > 50 + CenterThreshold THEN "right"
    ELSE None

(* A grace period that never ends while the timestamp is held. *)
isWithinGracePeriodAlways(ref) == ref # NoTime

(* Lines 85-86. *)
isWithinGracePeriod(ref) == ref # NoTime /\ ref < GraceMs

(* The conditions of lines 90-95 without the test of the control mode. *)
MayTriggerIgnoringControl(userCtl, gaze, pip, ref, hover, tv) ==
    /\ (gaze # pip.side \/ isWithinGracePeriod(ref))
    /\ ~hover
    /\ tv = None

(* Lines 90-95: the conditions under which a sample may trigger. *)
MayTrigger(userCtl, gaze, pip, ref, hover, tv) ==
    /\ ~userCtl
    /\ (gaze # pip.side \/ isWithinGracePeriod(ref))
    /\ ~hover
    /\ tv = None

(* Lines 97-99. *)
cursorJustEnteredZone(prev, new, pip) == prev # pip.side /\ new = pip.side

(* A command that sends the widget to the cursor's own slot. *)
CommandSameSlot(vertical, pip) ==
    [side |-> OtherSide(pip.side), vertical |-> vertical]

(* Lines 110-121: the command a debounce timeout issues. *)
Command(vertical, pip) ==
    [side |-> OtherSide(pip.side),
     vertical |-> IF vertical = "top" THEN "bottom"
                  ELSE IF vertical = "bottom" THEN "top"
                  ELSE IF pip.vertical = "top" THEN "bottom"
                  ELSE IF pip.vertical = "bottom" THEN "top"
                  ELSE "center"]

(* The grace effect, lines 146-171, on the gaze timestamp ref. *)
GraceEffect(tracking, gaze, pipSide, ref) ==
    IF ~tracking THEN ref
    ELSE IF gaze = pipSide THEN (IF ref = NoTime THEN 0 ELSE ref)
    ELSE NoTime

(* handlePipPositionChange, lines 181-189: the pending flag clears once *)
(* the reported vertical slot is the target's.                          *)
ClearsTarget(zone, tvRef) == tvRef # None /\ zone.vertical = tvRef

(* A clearTimeout that clears nothing. *)
ClearTimerOff(timers, ref) == timers

(* clearTimeout(ref): lines 103-105, 139-141, 196-198, 209-211. *)
ClearTimer(timers, ref) == {t \in timers : t.id # ref}

(* A cleanup that leaves the timeout pending. *)
EffectCleanupOff(timers, ref, registered, changed) == timers

(* The cleanup of the mouse-move effect, lines 137-142: it runs when a *)
(* dependency changed and the effect had registered the listener.      *)
EffectCleanup(timers, ref, registered, changed) ==
    IF registered /\ changed THEN ClearTimer(timers, ref) ELSE timers

(* A setTimeout that leaves the timeout it replaces pending. *)
ReplaceTimerKeep(timers, ref, new) == timers \cup {new}

(* A replacement that clears the old timeout and starts none. *)
ReplaceTimerDrop(timers, ref, new) == {t \in timers : t.id # ref}

(* clearTimeout(ref) followed by setTimeout: lines 103-128, 209-216. *)
ReplaceTimer(timers, ref, new) == ClearTimer(timers, ref) \cup {new}

(* ------------------------------------------------------------------ *)
(* History                                                            *)
(* ------------------------------------------------------------------ *)
(* The 1000 ms timeouts of the grace effect, lines 158-162, as their  *)
(* remaining delays in the order they were started: the effect starts *)
(* one whenever it records the timestamp and clears none; the         *)
(* callback only logs, and a timeout is gone once its delay is over.  *)
RECURSIVE AgeLogs(_, _)
AgeLogs(logs, d) ==
    IF logs = <<>> THEN <<>>
    ELSE IF Head(logs) - d <= 0 THEN AgeLogs(Tail(logs), d)
    ELSE <<Head(logs) - d>> \o AgeLogs(Tail(logs), d)

GraceLogs(logs, refPre, refPost, d) ==
    LET aged == AgeLogs(logs, d)
    IN  IF refPre = NoTime /\ refPost # NoTime THEN Append(aged, GraceMs) ELSE aged

(* What one step tells the history: its kind, the time it lets pass,   *)
(* whether it started a debounce timeout, whether it was a pointer      *)
(* sample seen by the policy and whether that sample lay in the         *)
(* widget's zone, and (of a command) whether its timeout was started in *)
(* the flapping window, (of a physics frame) whether the widget        *)
(* bounced off a bound, and (of a detection) the normalizedX it found.  *)
(* The history keeps besides: cutShort, whether the last stopTracking   *)
(* found a debounce timeout pending, and blank, whether the latest      *)
(* detection found no face or threw, and skipped, whether the step just *)
(* taken was a run of detect that classified nothing: the video was not *)
(* ready (ready is FALSE), no face was found or the detector threw, and  *)
(* inFlight, whether the step just taken was a resize of the window     *)
(* that found a physics frame scheduled.                                *)
Ev(kind) ==
    [kind |-> kind, d |-> 0, started |-> FALSE, sample |-> FALSE,
     inZone |-> FALSE, win |-> FALSE, bounced |-> FALSE, seen |-> <<>>,
     ready |-> TRUE]

(* Where the count of physics frames stops growing. *)
StepCap == Max(MaxSettleSteps, MaxSpringSteps) + 1

InFlapWindow == hist.flapAge = NoTime \/ hist.flapAge < DebounceMs

HistNext(ev) ==
    LET gazingPre == isTracking /\ gazeSide = pipPosition.side
        gazingPost == isTracking' /\ gazeSide' = pipPosition'.side
        mayPost == MayTrigger(isUserControllingPip', gazeSide', pipPosition',
                              gazeAtPipStartTimeRef', isCursorHoveringPip',
                              targetVertical')
        broken == \/ ~isTracking'
                  \/ (ev.sample /\ ~ev.inZone)
                  \/ pipPosition'.side # pipPosition.side
                  \/ (hist.entryCmds = 0 /\ ~mayPost)
        entry ==
            IF ev.started THEN [age |-> 0, cmds |-> 0]
            ELSE IF hist.entryAge = NoTime THEN [age |-> NoTime, cmds |-> 0]
            ELSE IF ev.kind = "command"
            THEN [age |-> hist.entryAge, cmds |-> Min(hist.entryCmds + 1, 2)]
            ELSE IF broken THEN [age |-> NoTime, cmds |-> 0]
            ELSE [age |-> Min(DebounceMs, hist.entryAge + ev.d),
                  cmds |-> hist.entryCmds]
        flap ==
            IF ev.started
            THEN IF hist.flapAge = NoTime THEN [age |-> 0, entries |-> 1, cmds |-> 0]
                 ELSE [age |-> hist.flapAge,
                       entries |-> IF hist.flapAge < DebounceMs
                                   THEN Min(hist.flapEntries + 1, 3)
                                   ELSE hist.flapEntries,
                       cmds |-> hist.flapCmds]
            ELSE IF hist.flapAge = NoTime THEN [age |-> NoTime, entries |-> 0, cmds |-> 0]
            ELSE IF ev.kind = "command"
            THEN [age |-> hist.flapAge, entries |-> hist.flapEntries,
                  cmds |-> IF ev.win THEN Min(hist.flapCmds + 1, 2) ELSE hist.flapCmds]
            ELSE IF hist.flapAge + ev.d >= 2 * DebounceMs
            THEN [age |-> NoTime, entries |-> 0, cmds |-> 0]
            ELSE [age |-> hist.flapAge + ev.d, entries |-> hist.flapEntries,
                  cmds |-> hist.flapCmds]
        obs == hist.obs
    IN  hist' =
            [obs |-> obs,
             sinceDragEnd |->
                 IF "drag" \notin obs THEN NoTime
                 ELSE IF ev.kind = "dragEnd" THEN 0
                 ELSE IF ev.kind = "dragStart" THEN NoTime
                 ELSE IF hist.sinceDragEnd = NoTime THEN NoTime
                 ELSE Min(ReEngageMs, hist.sinceDragEnd + ev.d),
             entryAge |-> IF "entry" \in obs THEN entry.age ELSE NoTime,
             entryCmds |-> IF "entry" \in obs THEN entry.cmds ELSE 0,
             lingering |->
                 IF "linger" \notin obs \/ ~ev.sample THEN hist.lingering
                 ELSE IF ev.inZone /\ hist.lingering # "no" THEN "yes"
                 ELSE "no",
             flapAge |-> IF "flap" \in obs THEN flap.age ELSE NoTime,
             flapEntries |-> IF "flap" \in obs THEN flap.entries ELSE 0,
             flapCmds |-> IF "flap" \in obs THEN flap.cmds ELSE 0,
             loose |->
                 IF "clamp" \notin obs THEN FALSE
                 ELSE IF ev.kind = "move" THEN (isResizing \/ (hist.loose /\ ~isDragging))
                 ELSE IF ev.kind \in {"dragEnd", "frame"} THEN FALSE
                 ELSE hist.loose,
             stopped |->
                 IF "stop" \notin obs THEN FALSE
                 ELSE IF ev.kind = "stop" THEN TRUE
                 ELSE IF ev.kind = "start" THEN FALSE
                 ELSE hist.stopped,
             gazeAge |->
                 IF "gaze" \notin obs \/ ~gazingPost THEN NoTime
                 ELSE IF gazingPre /\ hist.gazeAge # NoTime
                 THEN Min(GraceMs, hist.gazeAge + ev.d)
                 ELSE 0,
             steps |->
                 IF "steps" \in obs /\ ev.kind = "frame"
                 THEN Min(StepCap, hist.steps + 1)
                 ELSE hist.steps,
             bounced |->
                 IF "steps" \in obs /\ ev.kind = "frame"
                 THEN hist.bounced \/ ev.bounced
                 ELSE hist.bounced,
             start |-> hist.start,
             goal |-> hist.goal,
             gazeX |->
                 IF "gazeX" \notin obs \/ ev.kind = "stop" THEN <<>>
                 ELSE IF ev.kind = "estimate" /\ ev.seen # <<>> THEN ev.seen
                 ELSE hist.gazeX,
             graceLogs |->
                 IF "graceLog" \notin obs THEN <<>>
                 ELSE GraceLogs(hist.graceLogs, gazeAtPipStartTimeRef,
                                gazeAtPipStartTimeRef', ev.d),
             cutShort |->
                 IF "stop" \notin obs THEN FALSE
                 ELSE IF ev.kind = "stop" THEN debounceTimers # {}
                 ELSE IF ev.kind = "start" THEN FALSE
                 ELSE hist.cutShort,
             blank |->
                 IF "gazeX" \notin obs \/ ev.kind = "stop" THEN FALSE
                 ELSE IF ev.kind = "estimate" THEN ev.seen = <<>>
                 ELSE hist.blank,
             inFlight |->
                 /\ "clamp" \in obs
                 /\ ev.kind = "viewport"
                 /\ animationFrameRef # NoId,
             skipped |->
                 /\ "gazeX" \in obs
                 /\ \/ ev.kind \in {"detectFrame", "started"} /\ ~ev.ready
                    \/ ev.kind = "estimate" /\ ev.seen = <<>>]

(* The history at mount; obs names the quantities a specification records. *)
HistInit(obs) ==
    [obs |-> obs,
     sinceDragEnd |-> NoTime, entryAge |-> NoTime, entryCmds |-> 0,
     lingering |-> "none", flapAge |-> NoTime, flapEntries |-> 0,
     flapCmds |-> 0, loose |-> FALSE, stopped |-> FALSE, gazeAge |-> NoTime,
     steps |-> 0, bounced |-> FALSE, start |-> [x |-> 0, y |-> 0],
     goal |-> NoTarget, gazeX |-> <<>>, graceLogs |-> <<>>, cutShort |-> FALSE,
     blank |-> FALSE, inFlight |-> FALSE,
     skipped |-> FALSE]

(* ------------------------------------------------------------------ *)
(* Initial state: the component mounted, the webcam not yet answered  *)
(* ------------------------------------------------------------------ *)
Mounted(vps, b, obs) ==
    /\ viewport \in vps
    /\ dimensions = [width |-> Px(InitialWidth), height |-> Px(InitialHeight)]
    /\ position = [x |-> 0, y |-> 0]
    /\ velocity = [x |-> 0, y |-> 0]
    /\ targetPosition = NoTarget
    /\ isDragging = FALSE
    /\ isResizing = FALSE
    /\ animationFrameRef = NoId
    /\ physFrames = {}
    /\ prevSideRef = "left"
    /\ dragStartPosRef = [x |-> 0, y |-> 0, offsetX |-> 0, offsetY |-> 0]
    /\ lastMousePosRef = [x |-> 0, y |-> 0]
    /\ resizeStartRef = [width |-> 0, height |-> 0, anchorX |-> 0, anchorY |-> 0,
                         startPosX |-> 0, startPosY |-> 0]
    /\ ballSide = "left"
    /\ targetVertical = None
    /\ targetVerticalRef = None
    /\ cursorSide = None
    /\ cursorVertical = "center"
    /\ gazeSide = None
    /\ lastDefinitiveGazeSide = None
    /\ isCursorHoveringPip = FALSE
    /\ pipPosition = [side |-> "left", vertical |-> "center"]
    /\ isUserControllingPip = FALSE
    /\ isTracking = FALSE
    /\ isLoading = FALSE
    /\ error = FALSE
    /\ webcam = "pending"
    /\ reEngageTimerRef = NoId
    /\ reEngageTimers = {}
    /\ cursorMoveDebounceRef = NoId
    /\ debounceTimers = {}
    /\ prevCursorSideRef = None
    /\ gazeAtPipStartTimeRef = NoTime
    /\ animationRef = NoId
    /\ detectFrames = {}
    /\ inflight = 0
    /\ budget = b
    /\ hist = HistInit(obs)

Budget(gestures, handles, sessions, entries, frames) ==
    [gestures |-> gestures, handles |-> handles, sessions |-> sessions,
     entries |-> entries, resizes |-> MaxViewportResizes, frames |-> frames,
     gazes |-> MaxGazeChanges]

Init ==
    Mounted(Viewports, Budget(MaxDrags, MaxHandles, MaxSessions, MaxEntries, NoLimit),
            {"clamp"})

(* ------------------------------------------------------------------ *)
(* The render that follows a handler                                  *)
(* ------------------------------------------------------------------ *)
(* The dependencies with isCursorHoveringPip left out. *)
DepsChangedNoHover(pipSet) ==
    \/ pipSet
    \/ isTracking' # isTracking
    \/ isUserControllingPip' # isUserControllingPip
    \/ gazeSide' # gazeSide
    \/ targetVertical' # targetVertical

(* The mouse-move effect's dependencies, line 143.  pipSet: the handler *)
(* called setPipPosition, which always stores a new object.             *)
DepsChanged(pipSet) ==
    \/ pipSet
    \/ isTracking' # isTracking
    \/ isUserControllingPip' # isUserControllingPip
    \/ gazeSide' # gazeSide
    \/ isCursorHoveringPip' # isCursorHoveringPip
    \/ targetVertical' # targetVertical

(* EyeTracker's effects after the handler left `timers` pending. *)
PolicyEffects(timers, pipSet) ==
    /\ debounceTimers' =
           EffectCleanup(timers, cursorMoveDebounceRef', isTracking, DepsChanged(pipSet))
    /\ gazeAtPipStartTimeRef' =
           GraceEffect(isTracking', gazeSide', pipPosition'.side, gazeAtPipStartTimeRef)

(* MeetPip's side-change effect, lines 584-679, on the widget state w *)
(* the handler left: it runs when the prop side differs from          *)
(* prevSideRef, and ends in startPhysics.                             *)
SideEffect(newSide, tv, w) ==
    IF prevSideRef = newSide THEN w
    ELSE LET sc == SideChange(prevSideRef, newSide, w.position, dimensions, viewport, tv)
             sp == startPhysics(w.frames, w.ref)
         IN  [position |-> sc.position, velocity |-> sc.velocity,
              targetPosition |-> sc.targetPosition,
              frames |-> sp.frames, ref |-> sp.ref]

(* ------------------------------------------------------------------ *)
(* Pointer events                                                     *)
(* ------------------------------------------------------------------ *)
(* onMouseEnter / onMouseLeave of the widget, lines 173-179. *)
MouseEnter ==
    /\ ~isCursorHoveringPip
    /\ isCursorHoveringPip' = TRUE
    /\ UNCHANGED <<widgetVars, trackVars, budget>>
    /\ UNCHANGED <<ballSide, targetVertical, targetVerticalRef, cursorSide,
                   cursorVertical, pipPosition, isUserControllingPip,
                   reEngageTimerRef, reEngageTimers, cursorMoveDebounceRef,
                   prevCursorSideRef>>
    /\ PolicyEffects(debounceTimers, FALSE)
    /\ HistNext(Ev("enter"))

MouseLeave ==
    /\ isCursorHoveringPip
    /\ isCursorHoveringPip' = FALSE
    /\ UNCHANGED <<widgetVars, trackVars, budget>>
    /\ UNCHANGED <<ballSide, targetVertical, targetVerticalRef, cursorSide,
                   cursorVertical, pipPosition, isUserControllingPip,
                   reEngageTimerRef, reEngageTimers, cursorMoveDebounceRef,
                   prevCursorSideRef>>
    /\ PolicyEffects(debounceTimers, FALSE)
    /\ HistNext(Ev("leave"))

(* Mouse down on the widget's body: handleDragStart, lines 393-435, and *)
(* handlePipDragStart, lines 191-200.  While resizing it returns early. *)
MouseDownBody(p) ==
    /\ isCursorHoveringPip
    /\ ~isResizing
    /\ budget.gestures > 0
    /\ budget' = [budget EXCEPT !.gestures = @ - 1]
    /\ isDragging' = TRUE
    /\ isUserControllingPip' = TRUE
    /\ reEngageTimers' = ClearTimer(reEngageTimers, reEngageTimerRef)
    /\ reEngageTimerRef' = NoId
    /\ LET sp == stopPhysics(physFrames, animationFrameRef)
       IN  physFrames' = sp.frames /\ animationFrameRef' = sp.ref
    /\ velocity' = [x |-> 0, y |-> 0]
    /\ targetPosition' = NoTarget
    /\ dragStartPosRef' = [x |-> p[1], y |-> p[2],
                           offsetX |-> position.x, offsetY |-> position.y]
    /\ lastMousePosRef' = [x |-> p[1], y |-> p[2]]
    /\ UNCHANGED <<dimensions, position, isResizing, prevSideRef, resizeStartRef,
                   viewport, trackVars>>
    /\ UNCHANGED <<ballSide, targetVertical, targetVerticalRef, cursorSide,
                   cursorVertical, isCursorHoveringPip, pipPosition,
                   cursorMoveDebounceRef, prevCursorSideRef>>
    /\ PolicyEffects(debounceTimers, FALSE)
    /\ HistNext(Ev("dragStart"))

(* Mouse down on the resize handle: handleResizeStart, lines 324-354. *)
MouseDownHandle ==
    /\ isCursorHoveringPip
    /\ budget.handles > 0
    /\ budget' = [budget EXCEPT !.handles = @ - 1]
    /\ isResizing' = TRUE
    /\ LET sp == stopPhysics(physFrames, animationFrameRef)
       IN  physFrames' = sp.frames /\ animationFrameRef' = sp.ref
    /\ velocity' = [x |-> 0, y |-> 0]
    /\ targetPosition' = NoTarget
    /\ LET corner == AnchorCorner(ballSide, position, dimensions, viewport)
       IN  resizeStartRef' =
               [width |-> dimensions.width, height |-> dimensions.height,
                anchorX |-> corner.x, anchorY |-> corner.y,
                startPosX |-> position.x, startPosY |-> position.y]
    /\ UNCHANGED <<dimensions, position, isDragging, prevSideRef, dragStartPosRef,
                   lastMousePosRef, viewport, policyVars, trackVars>>
    /\ HistNext(Ev("resizeStart"))

TimerIds(timers) == {t.id : t \in timers}

(* A mousemove on the window: EyeTracker's handleMouseMove (lines        *)
(* 51-134, registered while isTracking), then handleDragMove (437-473,   *)
(* while isDragging), then handleResizeMove (356-387, while isResizing). *)
(* dt is performance.now() minus lastMouseTimeRef, in ms.                *)
MouseMove(p, dt) ==
    LET zone == CursorZone(p, viewport)
        entered ==
            /\ isTracking
            /\ MayTrigger(isUserControllingPip, gazeSide, pipPosition,
                          gazeAtPipStartTimeRef, isCursorHoveringPip, targetVertical)
            /\ cursorJustEnteredZone(prevCursorSideRef, zone.side, pipPosition)
        new == [id |-> FreshId(TimerIds(debounceTimers)), rem |-> DebounceMs,
                vertical |-> zone.vertical, pip |-> pipPosition,
                win |-> InFlapWindow]
        dm == DragMove(p, dt, dragStartPosRef, lastMousePosRef,
                       getViewportBounds(ballSide, dimensions, viewport))
        rm == ResizeMove(p, ballSide, resizeStartRef)
    IN  /\ isTracking \/ isDragging \/ isResizing
        /\ entered => budget.entries > 0
        /\ budget' = IF entered THEN [budget EXCEPT !.entries = @ - 1] ELSE budget
        /\ IF isTracking
           THEN /\ cursorSide' = zone.side
                /\ cursorVertical' = zone.vertical
                /\ prevCursorSideRef' = zone.side
                /\ IF entered
                   THEN /\ debounceTimers' =
                               ReplaceTimer(debounceTimers, cursorMoveDebounceRef, new)
                        /\ cursorMoveDebounceRef' = new.id
                   ELSE UNCHANGED <<debounceTimers, cursorMoveDebounceRef>>
           ELSE UNCHANGED <<cursorSide, cursorVertical, prevCursorSideRef,
                            debounceTimers, cursorMoveDebounceRef>>
        /\ position' = IF isResizing THEN rm.position
                       ELSE IF isDragging THEN dm.position
                       ELSE position
        /\ dimensions' = IF isResizing THEN rm.dimensions ELSE dimensions
        /\ velocity' = IF isDragging THEN dm.velocity ELSE velocity
        /\ lastMousePosRef' = IF isDragging THEN [x |-> p[1], y |-> p[2]]
                              ELSE lastMousePosRef
        /\ UNCHANGED <<targetPosition, isDragging, isResizing, animationFrameRef,
                       physFrames, prevSideRef, dragStartPosRef, resizeStartRef,
                       viewport, trackVars>>
        /\ UNCHANGED <<ballSide, targetVertical, targetVerticalRef,
                       isCursorHoveringPip, pipPosition, isUserControllingPip,
                       reEngageTimerRef, reEngageTimers, gazeAtPipStartTimeRef>>
        /\ HistNext([Ev("move") EXCEPT !.sample = isTracking,
                                       !.inZone = (zone.side = pipPosition.side),
                                       !.started = entered])

(* Mouse up while dragging: handleDragEnd, lines 475-546, with updateDOM *)
(* (148-223), handlePipPositionChange (181-189), handlePipDragEnd        *)
(* (202-217) and the side-change effect; a resize in progress ends too   *)
(* (handleResizeEnd, 389-391).                                           *)
MouseUpDrag ==
    LET b == getViewportBounds(ballSide, dimensions, viewport)
        clampedPos == clampPosition(position, b)
        wasClamped == clampedPos # position
        final == ReportedZone(ballSide, clampedPos, dimensions, viewport)
        timer == [id |-> FreshId(TimerIds(reEngageTimers)),
                  rem |-> ReEngageMs]
        fling == \/ 100 * Abs(velocity.x) > 5 * Scale
                 \/ 100 * Abs(velocity.y) > 5 * Scale
                 \/ wasClamped
        sp == IF fling THEN startPhysics(physFrames, animationFrameRef)
              ELSE [frames |-> physFrames, ref |-> animationFrameRef]
        w == SideEffect(final.side, None,
                        [position |-> clampedPos, velocity |-> velocity,
                         targetPosition |-> targetPosition,
                         frames |-> sp.frames, ref |-> sp.ref])
    IN  /\ isDragging
        /\ isDragging' = FALSE
        /\ isResizing' = FALSE
        /\ pipPosition' = final
        /\ ballSide' = final.side
        /\ prevSideRef' = final.side
        /\ targetVertical' = None
        /\ targetVerticalRef' = None
        /\ reEngageTimers' = ReplaceTimer(reEngageTimers, reEngageTimerRef, timer)
        /\ reEngageTimerRef' = timer.id
        /\ position' = w.position
        /\ velocity' = w.velocity
        /\ targetPosition' = w.targetPosition
        /\ physFrames' = w.frames
        /\ animationFrameRef' = w.ref
        /\ UNCHANGED <<dimensions, dragStartPosRef, lastMousePosRef, resizeStartRef,
                       viewport, trackVars, budget>>
        /\ UNCHANGED <<cursorSide, cursorVertical, isCursorHoveringPip,
                       isUserControllingPip, cursorMoveDebounceRef, prevCursorSideRef>>
        /\ PolicyEffects(debounceTimers, TRUE)
        /\ HistNext(Ev("dragEnd"))

(* Mouse up while only resizing: handleResizeEnd, lines 389-391. *)
MouseUpResize ==
    /\ isResizing
    /\ ~isDragging
    /\ isResizing' = FALSE
    /\ UNCHANGED <<dimensions, position, velocity, targetPosition, isDragging,
                   animationFrameRef, physFrames, prevSideRef, dragStartPosRef,
                   lastMousePosRef, resizeStartRef, viewport>>
    /\ UNCHANGED <<policyVars, trackVars, budget>>
    /\ HistNext(Ev("resizeEnd"))

(* ------------------------------------------------------------------ *)
(* Animation frames, the window, timers                               *)
(* ------------------------------------------------------------------ *)
(* The browser runs the scheduled physics frame id: updatePhysics,    *)
(* lines 226-313, with updateDOM and handlePipPositionChange.         *)
PhysicsFrame(id) ==
    LET r == updatePhysics(position, velocity, targetPosition,
                           getViewportBounds(ballSide, dimensions, viewport))
        zone == ReportedZone(ballSide, r.position, dimensions, viewport)
        rest == physFrames \ {id}
        next == FreshId(rest)
        clears == ClearsTarget(zone, targetVerticalRef)
    IN  /\ id \in physFrames
        /\ budget.frames # 0
        /\ budget' = IF budget.frames = NoLimit THEN budget
                      ELSE [budget EXCEPT !.frames = @ - 1]
        /\ position' = r.position
        /\ velocity' = r.velocity
        /\ targetPosition' = r.targetPosition
        /\ physFrames' = IF r.again THEN rest \cup {next} ELSE rest
        /\ animationFrameRef' = IF r.again THEN next ELSE NoId
        /\ pipPosition' = zone
        /\ targetVertical' = IF clears THEN None ELSE targetVertical
        /\ targetVerticalRef' = IF clears THEN None ELSE targetVerticalRef
        /\ UNCHANGED <<dimensions, isDragging, isResizing, prevSideRef,
                       dragStartPosRef, lastMousePosRef, resizeStartRef, viewport,
                       trackVars>>
        /\ UNCHANGED <<ballSide, cursorSide, cursorVertical, isCursorHoveringPip,
                       isUserControllingPip, reEngageTimerRef, reEngageTimers,
                       cursorMoveDebounceRef, prevCursorSideRef>>
        /\ PolicyEffects(debounceTimers, TRUE)
        /\ HistNext([Ev("frame") EXCEPT !.bounced = r.bounced])

(* A handleResize that restarts the physics whatever it finds. *)
restartIfIdleAlways(frames, ref, outside) == startPhysics(frames, ref)

(* Lines 719-730 of handleResize: startPhysics when no frame is *)
(* scheduled and the position is outside the bounds.            *)
restartIfIdle(frames, ref, outside) ==
    IF ref = NoId /\ outside THEN startPhysics(frames, ref)
    ELSE [frames |-> frames, ref |-> ref]

(* The window's resize event: handleResize, lines 712-731. *)
ViewportResize(vp) ==
    LET b == getViewportBounds(ballSide, dimensions, vp)
        clampedPos == clampPosition(position, b)
        outside == \/ clampedPos.x < b.minX \/ clampedPos.x > b.maxX
                   \/ clampedPos.y < b.minY \/ clampedPos.y > b.maxY
        sp == restartIfIdle(physFrames, animationFrameRef, outside)
    IN  /\ vp # viewport
        /\ budget.resizes > 0
        /\ budget' = [budget EXCEPT !.resizes = @ - 1]
        /\ viewport' = vp
        /\ position' = clampedPos
        /\ physFrames' = sp.frames
        /\ animationFrameRef' = sp.ref
        /\ UNCHANGED <<dimensions, velocity, targetPosition, isDragging, isResizing,
                       prevSideRef, dragStartPosRef, lastMousePosRef, resizeStartRef>>
        /\ UNCHANGED <<policyVars, trackVars>>
        /\ HistNext(Ev("viewport"))

Age(t, d) == [t EXCEPT !.rem = @ - d]

(* The delays after which a pending timeout is due or the grace period *)
(* of lines 85-86 is over.                                             *)
DueIn ==
    ({t.rem : t \in debounceTimers \cup reEngageTimers} \ {0})
    \cup (IF isWithinGracePeriod(gazeAtPipStartTimeRef)
          THEN {GraceMs - gazeAtPipStartTimeRef} ELSE {})

(* The short steps of time, taken while a debounce timeout is pending. *)
ShortSteps == IF debounceTimers # {} THEN AdvanceSteps ELSE {}

(* d ms pass.  A timeout fires when it is due, so no step passes over a *)
(* pending timeout.                                                     *)
Advance(d) ==
    /\ d > 0
    /\ \A t \in debounceTimers \cup reEngageTimers : t.rem >= d
    /\ debounceTimers' = {Age(t, d) : t \in debounceTimers}
    /\ reEngageTimers' = {Age(t, d) : t \in reEngageTimers}
    /\ gazeAtPipStartTimeRef' =
           IF gazeAtPipStartTimeRef = NoTime THEN NoTime
           ELSE Min(GraceMs, gazeAtPipStartTimeRef + d)
    /\ UNCHANGED <<widgetVars, trackVars, budget>>
    /\ UNCHANGED <<ballSide, targetVertical, targetVerticalRef, cursorSide,
                   cursorVertical, isCursorHoveringPip, pipPosition,
                   isUserControllingPip, reEngageTimerRef, cursorMoveDebounceRef,
                   prevCursorSideRef>>
    /\ HistNext([Ev("advance") EXCEPT !.d = d])

(* The debounce timeout t fires: lines 108-128, then the render with the *)
(* side-change effect of MeetPip.                                        *)
DebounceFire(t) ==
    LET cmd == Command(t.vertical, t.pip)
        w == SideEffect(cmd.side, cmd.vertical,
                        [position |-> position, velocity |-> velocity,
                         targetPosition |-> targetPosition,
                         frames |-> physFrames, ref |-> animationFrameRef])
    IN  /\ t \in debounceTimers
        /\ t.rem = 0
        /\ targetVertical' = cmd.vertical
        /\ targetVerticalRef' = cmd.vertical
        /\ ballSide' = cmd.side
        /\ prevSideRef' = cmd.side
        /\ cursorMoveDebounceRef' = NoId
        /\ position' = w.position
        /\ velocity' = w.velocity
        /\ targetPosition' = w.targetPosition
        /\ physFrames' = w.frames
        /\ animationFrameRef' = w.ref
        /\ UNCHANGED <<dimensions, isDragging, isResizing, dragStartPosRef,
                       lastMousePosRef, resizeStartRef, viewport, trackVars, budget>>
        /\ UNCHANGED <<cursorSide, cursorVertical, isCursorHoveringPip, pipPosition,
                       isUserControllingPip, reEngageTimerRef, reEngageTimers,
                       prevCursorSideRef>>
        /\ PolicyEffects(debounceTimers \ {t}, FALSE)
        /\ HistNext([Ev("command") EXCEPT !.win = t.win])

(* The re-engage timeout t fires: lines 213-216. *)
ReEngageFire(t) ==
    /\ t \in reEngageTimers
    /\ t.rem = 0
    /\ isUserControllingPip' = FALSE
    /\ reEngageTimerRef' = NoId
    /\ reEngageTimers' = reEngageTimers \ {t}
    /\ UNCHANGED <<widgetVars, trackVars, budget>>
    /\ UNCHANGED <<ballSide, targetVertical, targetVerticalRef, cursorSide,
                   cursorVertical, isCursorHoveringPip, pipPosition,
                   cursorMoveDebounceRef, prevCursorSideRef>>
    /\ PolicyEffects(debounceTimers, FALSE)
    /\ HistNext(Ev("reEngage"))

(* ------------------------------------------------------------------ *)
(* Webcam, tracking and the detection loop                            *)
(* ------------------------------------------------------------------ *)
isWebcamOn == webcam = "on"

(* getUserMedia settles: startWebcam, lines 221-237. *)
WebcamSettles(ok) ==
    /\ webcam = "pending"
    /\ webcam' = IF ok THEN "on" ELSE "failed"
    /\ error' = IF ok THEN error ELSE TRUE
    /\ UNCHANGED <<widgetVars, policyVars, budget>>
    /\ UNCHANGED <<gazeSide, lastDefinitiveGazeSide, isTracking, isLoading,
                   animationRef, detectFrames, inflight>>
    /\ HistNext(Ev("webcam"))

(* A click on the enabled eye button while not tracking: startTracking *)
(* up to its first await, lines 258-265.                               *)
StartTracking ==
    /\ ~isTracking
    /\ ~isLoading
    /\ isWebcamOn
    /\ budget.sessions > 0
    /\ budget' = [budget EXCEPT !.sessions = @ - 1]
    /\ isLoading' = TRUE
    /\ error' = FALSE
    /\ UNCHANGED <<widgetVars, policyVars>>
    /\ UNCHANGED <<gazeSide, lastDefinitiveGazeSide, isTracking, webcam,
                   animationRef, detectFrames, inflight>>
    /\ HistNext(Ev("start"))

(* A detect that requests no frame when the video is not ready. *)
detectGivesUp(ready, frames, ref, calls) ==
    [frames |-> frames, ref |-> ref, calls |-> IF ready THEN calls + 1 ELSE calls]

(* One run of detect, lines 304-311, up to its await: when the video is *)
(* not ready it requests the next frame, else it calls estimateFaces.   *)
detect(ready, frames, ref, calls) ==
    IF ready
    THEN [frames |-> frames, ref |-> ref, calls |-> calls + 1]
    ELSE LET id == FreshId(frames)
         IN  [frames |-> frames \cup {id}, ref |-> id, calls |-> calls]

(* The model and detector loaded: lines 284-288, and the first detect. *)
StartTrackingDone(ready) ==
    LET r == detect(ready, detectFrames, animationRef, inflight)
    IN  /\ isLoading
        /\ isTracking' = TRUE
        /\ isLoading' = FALSE
        /\ detectFrames' = r.frames
        /\ animationRef' = r.ref
        /\ inflight' = r.calls
        /\ UNCHANGED <<widgetVars, budget>>
        /\ UNCHANGED <<gazeSide, lastDefinitiveGazeSide, error, webcam>>
        /\ UNCHANGED <<ballSide, targetVertical, targetVerticalRef, cursorSide,
                       cursorVertical, isCursorHoveringPip, pipPosition,
                       isUserControllingPip, reEngageTimerRef, reEngageTimers,
                       cursorMoveDebounceRef, prevCursorSideRef>>
        /\ PolicyEffects(debounceTimers, FALSE)
        /\ HistNext([Ev("started") EXCEPT !.ready = ready])

(* Loading the model or creating the detector throws: lines 289-292. *)
StartTrackingFails ==
    /\ isLoading
    /\ isLoading' = FALSE
    /\ error' = TRUE
    /\ UNCHANGED <<widgetVars, policyVars, budget>>
    /\ UNCHANGED <<gazeSide, lastDefinitiveGazeSide, isTracking, webcam,
                   animationRef, detectFrames, inflight>>
    /\ HistNext(Ev("startFailed"))

(* A click on the eye button while tracking: stopTracking, lines 383-393. *)
StopTracking ==
    /\ isTracking
    /\ detectFrames' = detectFrames \ {animationRef}
    /\ animationRef' = NoId
    /\ isTracking' = FALSE
    /\ gazeSide' = None
    /\ UNCHANGED <<widgetVars, budget>>
    /\ UNCHANGED <<lastDefinitiveGazeSide, isLoading, error, webcam, inflight>>
    /\ UNCHANGED <<ballSide, targetVertical, targetVerticalRef, cursorSide,
                   cursorVertical, isCursorHoveringPip, pipPosition,
                   isUserControllingPip, reEngageTimerRef, reEngageTimers,
                   cursorMoveDebounceRef, prevCursorSideRef>>
    /\ PolicyEffects(debounceTimers, FALSE)
    /\ HistNext(Ev("stop"))

(* The browser runs the scheduled detect frame id: lines 304-311. *)
DetectFrame(id, ready) ==
    LET r == detect(ready, detectFrames \ {id}, animationRef, inflight)
    IN  /\ id \in detectFrames
        /\ detectFrames' = r.frames
        /\ animationRef' = r.ref
        /\ inflight' = r.calls
        /\ UNCHANGED <<widgetVars, policyVars, budget>>
        /\ UNCHANGED <<gazeSide, lastDefinitiveGazeSide, isTracking, isLoading,
                       error, webcam>>
        /\ HistNext([Ev("detectFrame") EXCEPT !.ready = ready])

(* A last definitive side that follows the gaze into the centre zone. *)
DefinitiveFollows(zone, last) == zone

(* setLastDefinitiveGazeSide, lines 354-362: called with left or right, *)
(* not called in the centre zone.                                       *)
Definitive(zone, last) == IF zone # None THEN zone ELSE last

(* An estimateFaces call settles, lines 311-377.  res is "throws", *)
(* "noface", or normalizedX in hundredths.                         *)
EstimateSettles(res) ==
    LET seen == res \in GazeXs
        id == FreshId(detectFrames)
        moved == seen /\ ClassifyGaze(res) # gazeSide
    IN  /\ inflight > 0
        /\ moved => budget.gazes > 0
        /\ budget' = IF moved THEN [budget EXCEPT !.gazes = @ - 1] ELSE budget
        /\ inflight' = inflight - 1
        /\ gazeSide' = IF seen THEN ClassifyGaze(res) ELSE gazeSide
        /\ lastDefinitiveGazeSide' =
               IF seen THEN Definitive(ClassifyGaze(res), lastDefinitiveGazeSide)
               ELSE lastDefinitiveGazeSide
        /\ detectFrames' = detectFrames \cup {id}
        /\ animationRef' = id
        /\ UNCHANGED widgetVars
        /\ UNCHANGED <<isTracking, isLoading, error, webcam>>
        /\ UNCHANGED <<ballSide, targetVertical, targetVerticalRef, cursorSide,
                       cursorVertical, isCursorHoveringPip, pipPosition,
                       isUserControllingPip, reEngageTimerRef, reEngageTimers,
                       cursorMoveDebounceRef, prevCursorSideRef>>
        /\ PolicyEffects(debounceTimers, FALSE)
        /\ HistNext([Ev("estimate") EXCEPT !.seen = IF seen THEN <<res>> ELSE <<>>])

(* ------------------------------------------------------------------ *)
(* Specifications                                                     *)
(* ------------------------------------------------------------------ *)
(* The tracking life cycle and the detection loop. *)
TrackNext ==
    \/ \E ok \in BOOLEAN : WebcamSettles(ok)
    \/ StartTracking
    \/ \E ready \in BOOLEAN : StartTrackingDone(ready)
    \/ StartTrackingFails
    \/ StopTracking
    \/ \E id \in Ids, ready \in BOOLEAN : DetectFrame(id, ready)
    \/ \E res \in GazeXs \cup {-1, -2} : EstimateSettles(res)

InitTrack ==
    Mounted(Viewports, Budget(MaxDrags, MaxHandles, MaxSessions, MaxEntries, NoLimit),
            {"stop", "gazeX"})

SpecTrack == InitTrack /\ [][TrackNext]_vars

(* The pointer takes hold of the widget at its middle. *)
PressPoints == {WidgetCentre(ballSide, position, dimensions, viewport)}

(* The widget under the pointer: drags, resizes, physics, the window. *)
GestureNext ==
    \/ MouseEnter
    \/ MouseLeave
    \/ \E p \in PressPoints : MouseDownBody(p)
    \/ MouseDownHandle
    \/ \E p \in Pointers, dt \in MoveDts : MouseMove(p, dt)
    \/ MouseUpDrag
    \/ MouseUpResize
    \/ \E id \in Ids : PhysicsFrame(id)
    \/ \E vp \in Viewports : ViewportResize(vp)

SpecGesture == Init /\ [][GestureNext]_vars

(* Drags and resizes with the pointer taken to the edges of the *)
(* window, the window keeping its size and no frame served.     *)
ResizeNext ==
    \/ MouseEnter
    \/ MouseLeave
    \/ \E p \in PressPoints : MouseDownBody(p)
    \/ MouseDownHandle
    \/ \E p \in Pointers \cup EdgePointers, dt \in MoveDts : MouseMove(p, dt)
    \/ MouseUpDrag
    \/ MouseUpResize

SpecResize == Init /\ [][ResizeNext]_vars

(* Gestures that take hold of a widget in flight: a second drag or a *)
(* resize after a drag was let go, in a window that keeps its size.  *)
InterruptNext ==
    \/ MouseEnter
    \/ MouseLeave
    \/ \E p \in PressPoints : MouseDownBody(p)
    \/ MouseDownHandle
    \/ \E p \in Pointers, dt \in MoveDts : MouseMove(p, dt)
    \/ MouseUpDrag
    \/ MouseUpResize
    \/ \E id \in Ids : PhysicsFrame(id)

InitInterrupt ==
    Mounted(Viewports, Budget(MaxGestures, MaxHandles, 0, 0, MaxGestureFrames), {})

SpecInterrupt == InitInterrupt /\ [][InterruptNext]_vars

(* Drags and the re-engage cooldown.  The browser serves timers but no *)
(* animation frame, as it does for a page in the background.           *)
ControlNext ==
    \/ MouseEnter
    \/ MouseLeave
    \/ \E p \in PressPoints : MouseDownBody(p)
    \/ \E p \in Pointers, dt \in MoveDts : MouseMove(p, dt)
    \/ MouseUpDrag
    \/ \E d \in CooldownSteps \cup DueIn : Advance(d)
    \/ \E t \in reEngageTimers : ReEngageFire(t)

InitControl ==
    Mounted(Viewports, Budget(MaxGestures, MaxHandles, MaxSessions, MaxEntries, NoLimit),
            {"drag"})

SpecControl == InitControl /\ [][ControlNext]_vars

(* Time passes and a due re-engage timeout fires. *)
FairControl ==
    /\ WF_vars(\E d \in CooldownSteps \cup DueIn : Advance(d))
    /\ WF_vars(\E t \in reEngageTimers : ReEngageFire(t))

SpecControlFair == SpecControl /\ FairControl

(* The repositioning policy: tracking, gaze, cursor, debounce, commands *)
(* and the first frames of the flight a command starts.                *)
PolicyNext ==
    \/ MouseEnter
    \/ MouseLeave
    \/ \E p \in Pointers, dt \in MoveDts : MouseMove(p, dt)
    \/ \E id \in Ids : PhysicsFrame(id)
    \/ \E d \in ShortSteps \cup DueIn : Advance(d)
    \/ \E t \in debounceTimers : DebounceFire(t)
    \/ \E ok \in BOOLEAN : WebcamSettles(ok)
    \/ StartTracking
    \/ \E ready \in BOOLEAN : StartTrackingDone(ready)
    \/ StopTracking
    \/ \E id \in Ids, ready \in BOOLEAN : DetectFrame(id, ready)
    \/ \E res \in GazeXs \cup {-1, -2} : EstimateSettles(res)

InitPolicy ==
    Mounted({Desktop},
            Budget(MaxDrags, MaxHandles, MaxPolicySessions, MaxEntries,
                   MaxPolicyFrames),
            {"entry", "flap", "linger"})

SpecPolicy == InitPolicy /\ [][PolicyNext]_vars

(* The policy with a drag of the widget and the cooldown after it, the *)
(* tracking left on and no animation frame served.                    *)
PolicyDragNext ==
    \/ MouseEnter
    \/ MouseLeave
    \/ \E p \in PressPoints : MouseDownBody(p)
    \/ \E p \in Pointers, dt \in MoveDts : MouseMove(p, dt)
    \/ MouseUpDrag
    \/ \E d \in ShortSteps \cup DueIn : Advance(d)
    \/ \E t \in debounceTimers : DebounceFire(t)
    \/ \E t \in reEngageTimers : ReEngageFire(t)
    \/ \E ok \in BOOLEAN : WebcamSettles(ok)
    \/ StartTracking
    \/ \E ready \in BOOLEAN : StartTrackingDone(ready)
    \/ \E id \in Ids, ready \in BOOLEAN : DetectFrame(id, ready)
    \/ \E res \in GazeXs \cup {-1, -2} : EstimateSettles(res)

InitPolicyDrag ==
    Mounted({Desktop},
            Budget(MaxDrags, MaxHandles, MaxPolicySessions,
                   MaxGestureEntries, NoLimit),
            {"gaze"})

SpecPolicyDrag == InitPolicyDrag /\ [][PolicyDragNext]_vars

(* The policy with a resize of the widget. *)
PolicyResizeNext ==
    \/ MouseEnter
    \/ MouseLeave
    \/ MouseDownHandle
    \/ \E p \in Pointers, dt \in MoveDts : MouseMove(p, dt)
    \/ MouseUpResize
    \/ \E id \in Ids : PhysicsFrame(id)
    \/ \E d \in ShortSteps \cup DueIn : Advance(d)
    \/ \E t \in debounceTimers : DebounceFire(t)
    \/ \E ok \in BOOLEAN : WebcamSettles(ok)
    \/ StartTracking
    \/ \E ready \in BOOLEAN : StartTrackingDone(ready)
    \/ StopTracking
    \/ \E id \in Ids, ready \in BOOLEAN : DetectFrame(id, ready)
    \/ \E res \in GazeXs \cup {-1, -2} : EstimateSettles(res)

InitPolicyResize ==
    Mounted({Desktop},
            Budget(MaxDrags, MaxHandles, MaxPolicySessions, MaxGestureEntries,
                   MaxGestureFrames),
            {})

SpecPolicyResize == InitPolicyResize /\ [][PolicyResizeNext]_vars

(* The policy under a changing gaze, the grace period and its timeouts *)
(* followed, the tracking switched off and on again.                   *)
InitPolicyGaze ==
    Mounted({Desktop},
            Budget(0, 0, MaxSessions, MaxGestureEntries, MaxPolicyFrames),
            {"gaze", "graceLog"})

SpecPolicyGaze == InitPolicyGaze /\ [][PolicyNext]_vars

(* The policy with the tracking switched off and on again. *)
InitPolicyOff ==
    Mounted({Desktop},
            Budget(0, 0, MaxSessions, MaxGestureEntries, MaxPolicyFrames),
            {"stop"})

SpecPolicyOff == InitPolicyOff /\ [][PolicyNext]_vars

(* The policy with a drag and with the tracking switched off and on *)
(* again; no animation frame is served and no face is detected.     *)
PolicyStopNext ==
    \/ MouseEnter
    \/ MouseLeave
    \/ \E p \in PressPoints : MouseDownBody(p)
    \/ \E p \in Pointers, dt \in MoveDts : MouseMove(p, dt)
    \/ MouseUpDrag
    \/ \E d \in ShortSteps \cup DueIn : Advance(d)
    \/ \E t \in debounceTimers : DebounceFire(t)
    \/ \E t \in reEngageTimers : ReEngageFire(t)
    \/ \E ok \in BOOLEAN : WebcamSettles(ok)
    \/ StartTracking
    \/ \E ready \in BOOLEAN : StartTrackingDone(ready)
    \/ StopTracking

InitPolicyStop ==
    Mounted({Desktop},
            Budget(MaxDrags, 0, MaxSessions, MaxGestureEntries, NoLimit),
            {})

SpecPolicyStop == InitPolicyStop /\ [][PolicyStopNext]_vars

(* The policy after a drag that flings the widget, in the smaller *)
(* window, with a camera that is granted and a video that loads.  *)
PolicyFlingNext ==
    \/ MouseEnter
    \/ MouseLeave
    \/ \E p \in PressPoints : MouseDownBody(p)
    \/ \E p \in Pointers, dt \in MoveDts : MouseMove(p, dt)
    \/ MouseUpDrag
    \/ \E id \in Ids : PhysicsFrame(id)
    \/ \E d \in ShortSteps \cup DueIn : Advance(d)
    \/ \E t \in debounceTimers : DebounceFire(t)
    \/ \E t \in reEngageTimers : ReEngageFire(t)
    \/ WebcamSettles(TRUE)
    \/ StartTracking
    \/ StartTrackingDone(TRUE)

InitPolicyFling ==
    Mounted({Compact},
            Budget(MaxDrags, 0, MaxPolicySessions, MaxGestureEntries, NoLimit),
            {})

SpecPolicyFling == InitPolicyFling /\ [][PolicyFlingNext]_vars

(* ------------------------------------------------------------------ *)
(* The physics run on its own: a started animation and its frames     *)
(* ------------------------------------------------------------------ *)
Inward(side, d) == IF side = "left" THEN d ELSE -d

(* The state in which an animation has just been started and its first *)
(* frame is requested: st gives the anchor side, the widget's size and *)
(* position, the velocity and the target, the pending vertical slot    *)
(* and whether the policy is driving (tracking on) or a drag has just  *)
(* ended (control with the user, the re-engage timeout pending).       *)
Started(starts, b, obs) ==
    \E st \in starts :
        /\ viewport = st.viewport
        /\ dimensions = st.dimensions
        /\ position = st.position
        /\ velocity = st.velocity
        /\ targetPosition = st.targetPosition
        /\ isDragging = FALSE
        /\ isResizing = FALSE
        /\ animationFrameRef = 1
        /\ physFrames = {1}
        /\ prevSideRef = st.side
        /\ dragStartPosRef = [x |-> 0, y |-> 0, offsetX |-> 0, offsetY |-> 0]
        /\ lastMousePosRef = [x |-> 0, y |-> 0]
        /\ resizeStartRef = [width |-> 0, height |-> 0, anchorX |-> 0, anchorY |-> 0,
                             startPosX |-> 0, startPosY |-> 0]
        /\ ballSide = st.side
        /\ targetVertical = st.tv
        /\ targetVerticalRef = st.tv
        /\ cursorSide = None
        /\ cursorVertical = "center"
        /\ gazeSide = None
        /\ lastDefinitiveGazeSide = None
        /\ isCursorHoveringPip = FALSE
        /\ pipPosition = st.pip
        /\ isUserControllingPip = ~st.tracking
        /\ isTracking = st.tracking
        /\ isLoading = FALSE
        /\ error = FALSE
        /\ webcam = "on"
        /\ reEngageTimerRef = IF st.tracking THEN NoId ELSE 1
        /\ reEngageTimers = IF st.tracking THEN {}
                            ELSE {[id |-> 1, rem |-> ReEngageMs]}
        /\ cursorMoveDebounceRef = NoId
        /\ debounceTimers = {}
        /\ prevCursorSideRef = None
        /\ gazeAtPipStartTimeRef = NoTime
        /\ animationRef = IF st.tracking THEN 1 ELSE NoId
        /\ detectFrames = IF st.tracking THEN {1} ELSE {}
        /\ inflight = 0
        /\ budget = b
        /\ hist = [HistInit(obs) EXCEPT !.start = st.velocity,
                                        !.goal = st.targetPosition]

(* The bounds are valid and hold the position. *)
Holds(side, dims, vp, pos) ==
    LET bb == getViewportBounds(side, dims, vp)
    IN  /\ bb.minX <= bb.maxX /\ bb.minY <= bb.maxY
        /\ pos = clampPosition(pos, bb)

InitialDimensions == [width |-> Px(InitialWidth), height |-> Px(InitialHeight)]

(* The velocities a drag lets go with, per axis, in pixels per frame. *)
FlingSpeeds == {-40, -8, 0, 3, 8, 20}

(* Where the widget is let go: at its corner-side rest position or *)
(* further in and lower.                                          *)
ReleaseOffsets == {[x |-> 0, y |-> 0], [x |-> 300, y |-> 150]}

(* A drag has just ended (handleDragEnd, lines 475-546) with a fling *)
(* velocity and startPhysics has requested the first frame.          *)
FlingStarts ==
    LET Start(vp, sd, o, vx, vy) ==
            LET pos == [x |-> Px(Inward(sd, o.x)), y |-> Px(o.y)]
            IN  [viewport |-> vp, side |-> sd, dimensions |-> InitialDimensions,
                 position |-> pos,
                 velocity |-> [x |-> Px(vx), y |-> Px(vy)],
                 targetPosition |-> NoTarget, tv |-> None,
                 pip |-> ReportedZone(sd, pos, InitialDimensions, vp),
                 tracking |-> FALSE]
    IN  {st \in {Start(vp, sd, o, vx, vy) :
                    vp \in Viewports, sd \in {"left", "right"}, o \in ReleaseOffsets,
                    vx \in FlingSpeeds, vy \in FlingSpeeds} :
            /\ Holds(st.side, st.dimensions, st.viewport, st.position)
            /\ st.pip.side = st.side}

(* The sizes the widget has when a command comes: as mounted, or *)
(* resized to the largest.                                       *)
CommandDimensions ==
    {InitialDimensions, [width |-> Px(MAX_WIDTH), height |-> Px(MAX_HEIGHT)]}

(* The debounce callback has just flipped the side of a resting widget *)
(* (lines 108-128) and the side-change effect (lines 584-679) has      *)
(* re-expressed the position, set the target and the velocity and      *)
(* requested the first frame.                                          *)
SpringStarts ==
    LET Start(vp, old, dims, o, tv) ==
            LET pos == [x |-> Px(Inward(old, o.x)), y |-> Px(o.y)]
                sc == SideChange(old, OtherSide(old), pos, dims, vp, tv)
            IN  [viewport |-> vp, side |-> OtherSide(old), dimensions |-> dims,
                 position |-> sc.position, velocity |-> sc.velocity,
                 targetPosition |-> sc.targetPosition, tv |-> tv,
                 pip |-> ReportedZone(old, pos, dims, vp),
                 tracking |-> TRUE, from |-> pos]
    IN  {[f \in {"viewport", "side", "dimensions", "position", "velocity",
                 "targetPosition", "tv", "pip", "tracking"} |-> st[f]] :
            st \in {st \in {Start(vp, old, dims, o, tv) :
                        vp \in Viewports, old \in {"left", "right"},
                        dims \in CommandDimensions, o \in ReleaseOffsets,
                        tv \in {"top", "center", "bottom"}} :
                        /\ Holds(OtherSide(st.side), st.dimensions, st.viewport, st.from)
                        /\ st.pip.side = OtherSide(st.side)}}

PhysicsNext == \E id \in physFrames : PhysicsFrame(id)

InitSettle == Started(FlingStarts, Budget(0, 0, 0, 0, NoLimit), {"steps"})

SpecSettle == InitSettle /\ [][PhysicsNext]_vars

InitSpring == Started(SpringStarts, Budget(0, 0, 0, 0, NoLimit), {"steps"})

SpecSpring == InitSpring /\ [][PhysicsNext]_vars

(* The spring of a command with the window resized during the flight; *)
(* the browser serves every frame it holds.                           *)
SpringResizeNext ==
    \/ \E id \in physFrames : PhysicsFrame(id)
    \/ \E vp \in Viewports : ViewportResize(vp)

(* The commands that come to a widget of the first size in the *)
(* larger window.                                              *)
SpringResizeStarts ==
    {st \in SpringStarts : st.viewport = Desktop /\ st.dimensions = InitialDimensions}

InitSpringResize == Started(SpringResizeStarts, Budget(0, 0, 0, 0, NoLimit), {"clamp"})

FairFrames == WF_vars(\E id \in physFrames : PhysicsFrame(id))

SpecSpringResize == InitSpringResize /\ [][SpringResizeNext]_vars /\ FairFrames

(* ------------------------------------------------------------------ *)
(* The command on its own: a due debounce timeout and what it issues  *)
(* ------------------------------------------------------------------ *)
Verticals == {"top", "center", "bottom"}

(* The y at which the widget rests in a vertical slot (lines 637-651). *)
SlotY(slot, dims, vp) ==
    IF slot = "top"
    THEN Px(VIEWPORT_PADDING) + Half(dims.height) - Half(Px(vp.height))
    ELSE IF slot = "bottom"
    THEN Half(Px(vp.height)) - Px(VIEWPORT_PADDING) - Half(dims.height)
    ELSE 0

(* The tracking is on, the widget rests on st.side in the slot          *)
(* st.slot, and the cursor entered the widget's zone 150 ms ago in the  *)
(* vertical zone st.cursor and has not moved since: the debounce       *)
(* timeout that the entry started (lines 101-128) is due.               *)
Armed(starts, b, obs) ==
    \E st \in starts :
        /\ viewport = st.viewport
        /\ dimensions = InitialDimensions
        /\ position = [x |-> 0, y |-> SlotY(st.slot, InitialDimensions, st.viewport)]
        /\ velocity = [x |-> 0, y |-> 0]
        /\ targetPosition = NoTarget
        /\ isDragging = FALSE
        /\ isResizing = FALSE
        /\ animationFrameRef = NoId
        /\ physFrames = {}
        /\ prevSideRef = st.side
        /\ dragStartPosRef = [x |-> 0, y |-> 0, offsetX |-> 0, offsetY |-> 0]
        /\ lastMousePosRef = [x |-> 0, y |-> 0]
        /\ resizeStartRef = [width |-> 0, height |-> 0, anchorX |-> 0, anchorY |-> 0,
                             startPosX |-> 0, startPosY |-> 0]
        /\ ballSide = st.side
        /\ targetVertical = None
        /\ targetVerticalRef = None
        /\ cursorSide = st.side
        /\ cursorVertical = st.cursor
        /\ gazeSide = None
        /\ lastDefinitiveGazeSide = None
        /\ isCursorHoveringPip = FALSE
        /\ pipPosition = [side |-> st.side, vertical |-> st.slot]
        /\ isUserControllingPip = FALSE
        /\ isTracking = TRUE
        /\ isLoading = FALSE
        /\ error = FALSE
        /\ webcam = "on"
        /\ reEngageTimerRef = NoId
        /\ reEngageTimers = {}
        /\ cursorMoveDebounceRef = 1
        /\ debounceTimers = {[id |-> 1, rem |-> 0, vertical |-> st.cursor,
                              pip |-> [side |-> st.side, vertical |-> st.slot],
                              win |-> TRUE]}
        /\ prevCursorSideRef = st.side
        /\ gazeAtPipStartTimeRef = NoTime
        /\ animationRef = 1
        /\ detectFrames = {1}
        /\ inflight = 0
        /\ budget = b
        /\ hist = HistInit(obs)

ArmedStarts ==
    {st \in [viewport : Viewports, side : {"left", "right"}, slot : Verticals,
             cursor : Verticals] :
        ReportedZone(st.side,
                     [x |-> 0, y |-> SlotY(st.slot, InitialDimensions, st.viewport)],
                     InitialDimensions, st.viewport)
            = [side |-> st.side, vertical |-> st.slot]}

(* The due timeout fires and the flight it starts takes its first frames. *)
CommandNext ==
    \/ \E t \in debounceTimers : DebounceFire(t)
    \/ \E id \in physFrames : PhysicsFrame(id)

InitCommand == Armed(ArmedStarts, Budget(0, 0, 0, 0, MaxPolicyFrames), {})

SpecCommand == InitCommand /\ [][CommandNext]_vars

(* ------------------------------------------------------------------ *)
(* Properties                                                         *)
(* ------------------------------------------------------------------ *)
Bounds == getViewportBounds(ballSide, dimensions, viewport)

ValidBounds == Bounds.minX <= Bounds.maxX /\ Bounds.minY <= Bounds.maxY

(* C1: after any interleaving of drag start, drag move, drag end and   *)
(* physics steps the stored position lies within the bounds that       *)
(* getViewportBounds gives for the current side, dimensions and        *)
(* viewport, whenever those bounds are valid.  The dimensions are      *)
(* those a resize left and the viewport one the window took; the       *)
(* property speaks of the states in which the last step that wrote the *)
(* position was a drag step, a physics step or the window's resize     *)
(* (hist.loose is false).                                              *)
BoundsContainment ==
    (ValidBounds /\ ~hist.loose) =>
        /\ Bounds.minX <= position.x /\ position.x <= Bounds.maxX
        /\ Bounds.minY <= position.y /\ position.y <= Bounds.maxY

(* A resized widget was dragged against the lower edge and let go    *)
(* there; the physics runs on from the clamped position.             *)
BoundsContainmentWitness ==
    /\ ValidBounds
    /\ ~hist.loose
    /\ ~isDragging
    /\ budget.gestures < MaxDrags
    /\ dimensions.width # Px(InitialWidth)
    /\ physFrames # {}
    /\ position.y = Bounds.maxY
    /\ velocity.y # 0

(* C9, as the claim states it: once stopTracking has run and until    *)
(* startTracking is next called, no detect frame is scheduled and the *)
(* gaze state stays cleared.                                          *)
StopCancelsDetection ==
    hist.stopped => (detectFrames = {} /\ gazeSide = None)

(* C10: at most one physics animation frame is scheduled at any time. *)
SinglePhysicsFrame == Cardinality(physFrames) <= 1

(* A drag let go across the middle of the screen: handleDragEnd and   *)
(* then the side-change effect both started the physics, and one      *)
(* frame is scheduled.                                                *)
SinglePhysicsFrameWitness ==
    /\ Cardinality(physFrames) = 1
    /\ targetPosition.set
    /\ ballSide = "right"
    /\ budget.gestures < MaxDrags

(* The entry of the cursor that the history follows is live: it came  *)
(* after a sample outside the widget's zone, the tracking is on, the  *)
(* cursor has stayed in the zone, the widget has kept its side and    *)
(* nothing has suppressed the trigger.                                *)
EntryLive == hist.entryAge # NoTime /\ hist.lingering = "no"

(* C2, as the claim states it: an entry of the cursor into the        *)
(* widget's zone, with nothing suppressing it and the cursor staying, *)
(* issues its command when the debounce is over; so until then its    *)
(* timeout is pending.                                                *)
EntryCommandNotLost ==
    (EntryLive /\ hist.entryCmds = 0) => debounceTimers # {}

(* C3, as the claim states it: while every sample seen so far lay in  *)
(* the widget's zone, no debounce timeout was started.                *)
LingeringStartsNoTimer == hist.lingering = "yes" => debounceTimers = {}

(* C4: the timeouts started within one debounce window of a first     *)
(* entry issue at most one reposition command between them.           *)
FlappingAtMostOneCommand == hist.flapCmds <= 1

(* The cursor entered twice within the window and the one command was *)
(* issued.                                                            *)
FlappingWitness == hist.flapEntries >= 2 /\ hist.flapCmds = 1

(* C5, as the claim states it: while a drag or a resize is active no *)
(* physics frame is scheduled.                                       *)
GestureExcludesPhysics == (isDragging \/ isResizing) => physFrames = {}

InCooldown == hist.sinceDragEnd # NoTime /\ hist.sinceDragEnd < ReEngageMs

(* C6: the control mode is user-controlled during every drag and      *)
(* until 10 s have passed since the most recent drag end.             *)
ControlModeSafety == (isDragging \/ InCooldown) => isUserControllingPip

(* Both drags are over and the cooldown that the second drag end      *)
(* started is running, with its one timeout pending: the mode is      *)
(* user-controlled.                                                   *)
ControlModeSafetyWitness ==
    /\ budget.gestures = 0
    /\ ~isDragging
    /\ InCooldown
    /\ hist.sinceDragEnd > 0
    /\ Cardinality(reEngageTimers) = 1
    /\ isUserControllingPip

ReEngageDue == \E t \in reEngageTimers : t.rem = 0

(* C7: after a drag end the control mode returns to automatic unless  *)
(* a new drag starts, and it does so when the 10 s from that drag end *)
(* are over: not before, and at that moment.                          *)
ControlModeLiveness ==
    /\ (hist.sinceDragEnd # NoTime) ~> (~isUserControllingPip \/ hist.sinceDragEnd = NoTime)
    /\ [](InCooldown => isUserControllingPip)
    /\ [](hist.sinceDragEnd = ReEngageMs => (~isUserControllingPip \/ ReEngageDue))

(* The cooldown after a drag end ran out and the mode is automatic. *)
ControlModeLivenessWitness ==
    /\ hist.sinceDragEnd = ReEngageMs
    /\ ~isUserControllingPip
    /\ reEngageTimers = {}

(* The suppression conditions of the policy, at a sample. *)
Suppressed ==
    \/ isUserControllingPip
    \/ targetVertical # None
    \/ isCursorHoveringPip
    \/ (gazeSide = pipPosition.side /\ hist.gazeAge = GraceMs)

(* C8: a step taken while a suppression condition holds starts no *)
(* debounce timeout.                                              *)
PolicySuppression ==
    [][Suppressed =>
          \A t \in debounceTimers' : t.rem = DebounceMs => t \in debounceTimers]_vars

(* The tracking is on, the control mode is user-controlled, and the   *)
(* cursor has come into the widget's zone without any timeout having  *)
(* been started.                                                      *)
PolicySuppressionWitness ==
    /\ isTracking
    /\ isUserControllingPip
    /\ ~isCursorHoveringPip
    /\ gazeSide # pipPosition.side
    /\ targetVertical = None
    /\ pipPosition.side = "left"
    /\ prevCursorSideRef = pipPosition.side
    /\ budget.entries = MaxGestureEntries

AtRest == velocity = [x |-> 0, y |-> 0] /\ physFrames = {} /\ animationFrameRef = NoId

(* C11: a widget let go with any of the fling velocities and no target *)
(* comes to rest within MaxSettleSteps physics frames: while a frame   *)
(* is still scheduled fewer than that many have run, and once none is  *)
(* scheduled the velocity is exactly (0, 0); bounces included.         *)
SettlingTermination ==
    /\ physFrames # {} => hist.steps < MaxSettleSteps
    /\ physFrames = {} => AtRest
    /\ ~targetPosition.set

(* A fling that bounced off a bound and took the full number of frames *)
(* to come to rest.                                                    *)
SettlingWitness ==
    /\ AtRest
    /\ hist.bounced
    /\ hist.steps = MaxSettleSteps
    /\ Abs(hist.start.x) > Px(MAX_VELOCITY)

(* C12: with a target inside the bounds and nothing interrupting, the   *)
(* frames of updatePhysics end within MaxSpringSteps steps, and they    *)
(* end with the position exactly on the target, the velocity (0, 0),    *)
(* the target cleared and no frame scheduled.                           *)
SpringConvergence ==
    /\ hist.goal.set
    /\ Holds(ballSide, dimensions, viewport, [x |-> hist.goal.x, y |-> hist.goal.y])
    /\ physFrames # {} => (targetPosition = hist.goal /\ hist.steps < MaxSpringSteps)
    /\ physFrames = {} =>
           /\ AtRest
           /\ ~targetPosition.set
           /\ position = [x |-> hist.goal.x, y |-> hist.goal.y]

(* A spring that overshot, bounced off a bound and then came to rest on *)
(* a target in the upper corner.                                        *)
SpringWitness ==
    /\ AtRest
    /\ ~targetPosition.set
    /\ hist.bounced
    /\ hist.goal.y < 0
    /\ position = [x |-> hist.goal.x, y |-> hist.goal.y]
    /\ hist.steps > 20

(* The position the side-change effect gives the widget when the anchor *)
(* goes from one side to the other, at the current size and viewport.   *)
Remapped(from, to, pos) == convertedPos(from, to, pos, dimensions, viewport)

(* C13: re-expressing the stored position under the other anchor side *)
(* and then back under the first gives the position back, x and y,    *)
(* whichever side is taken first.                                     *)
AnchorRoundTrip ==
    \A a \in {"left", "right"} :
        /\ Remapped(OtherSide(a), a, Remapped(a, OtherSide(a), position)) = position
        /\ Remapped(a, OtherSide(a), position).y = position.y

(* A resized widget away from its corner under the right anchor, in the *)
(* smaller window: the two conventions give different x.                *)
AnchorRoundTripWitness ==
    /\ ballSide = "right"
    /\ position.x < 0
    /\ position.y # 0
    /\ dimensions.width # Px(InitialWidth)
    /\ viewport # Desktop
    /\ Remapped("right", "left", position).x # position.x

(* C14, as the claim states it: a drag and a resize are never active *)
(* at the same time.                                                 *)
DragResizeExclusive == ~(isDragging /\ isResizing)

BoundsCalculation ==
    LET w == dimensions.width
        h == dimensions.height
        vw == Px(viewport.width)
        vh == Px(viewport.height)
        pad == Px(24)
    IN  /\ ballSide = "left" => (Bounds.minX = 0 /\ Bounds.maxX = vw - w - 2 * pad)
        /\ ballSide = "right" => (Bounds.minX = -(vw - 2 * pad - w) /\ Bounds.maxX = 0)
        /\ Abs(2 * Bounds.minY - (2 * pad + h - vh)) <= 1
        /\ Abs(2 * Bounds.maxY - (vh - 2 * pad - h)) <= 1
        /\ (/\ viewport = [width |-> 1200, height |-> 800]
            /\ dimensions = [width |-> Px(320), height |-> Px(280)]
            /\ ballSide = "left")
           => Bounds = [minX |-> 0, maxX |-> Px(832),
                        minY |-> -Px(236), maxY |-> Px(236)]

(* The scenario's widget, dragged down until the lower bound of 236 *)
(* stops it.                                                        *)
BoundsCalculationWitness ==
    /\ viewport = [width |-> 1200, height |-> 800]
    /\ dimensions = [width |-> Px(320), height |-> Px(280)]
    /\ ballSide = "left"
    /\ isDragging
    /\ position.y = Px(236)
    /\ position.x > 0

(* The fling of the scenario: let go with velocity (8, 0), no target, *)
(* and no bound met so far.                                           *)
FlingScenario ==
    /\ hist.start = [x |-> Px(8), y |-> 0]
    /\ ~hist.bounced
    /\ ~hist.goal.set

(* C17, as the claim states it with the spec's figure: the fling runs *)
(* on until step 42, where the velocity is zeroed and the frames end. *)
FlingStopsAtStep42 ==
    FlingScenario => (hist.steps < 42 => physFrames # {})

(* C17, amended: the velocity stays positive and a frame stays         *)
(* scheduled through step 39 = ceil(log(0.05/8)/log(0.88)) - 1, and    *)
(* at step 40 the engine sets the velocity to exactly zero and         *)
(* schedules no further frame.                                         *)
FlingStopsAtStep40 ==
    FlingScenario =>
        /\ hist.steps <= 40
        /\ hist.steps < 40 =>
               (physFrames # {} /\ 100 * velocity.x >= 5 * Scale /\ velocity.y = 0)
        /\ hist.steps = 40 => AtRest

(* The scenario's fling at rest after its 40 steps, some 66 px from *)
(* where it was let go.                                             *)
FlingWitness ==
    /\ FlingScenario
    /\ hist.steps = 40
    /\ AtRest
    /\ position.x > Px(60)
    /\ ballSide = "left"

(* A step in which the debounce callback runs: it alone clears *)
(* cursorMoveDebounceRef (line 127).                           *)
IsCommand == cursorMoveDebounceRef # NoId /\ cursorMoveDebounceRef' = NoId

(* C18, as the claim states it: every reposition command flips the   *)
(* anchor side, so that the side-change effect sets a spring target  *)
(* and starts the physics.  Checked for the commands issued while    *)
(* the widget is at rest, where no frame is pending.                 *)
CommandFlipsSide ==
    [][(IsCommand /\ physFrames = {}) =>
          /\ ballSide' # ballSide
          /\ targetPosition'.set
          /\ physFrames' # {}]_vars

(* C19, as the claim states it: whenever the physics has no target,  *)
(* no frame is scheduled and no gesture is active, the policy's      *)
(* pending flag targetVertical is null.                              *)
PendingFlagTracksTarget ==
    (/\ ~targetPosition.set
     /\ physFrames = {}
     /\ ~isDragging
     /\ ~isResizing) => targetVertical = None

(* A drag end whose fling velocity is at most 0.05 px/frame on both  *)
(* axes and whose release position needs no clamping correction, in  *)
(* a drag that no resize interferes with.                            *)
QuietRelease ==
    /\ isDragging
    /\ ~isResizing
    /\ ~isDragging'
    /\ 100 * Abs(velocity.x) <= 5 * Scale
    /\ 100 * Abs(velocity.y) <= 5 * Scale
    /\ position = clampPosition(position, Bounds)

(* C20, as the claim states it: a drag that ends without residual    *)
(* motion and without clamping starts no physics and sets no target, *)
(* so the widget stays where it was released, wherever that is.      *)
QuietReleaseStaysIdle ==
    [][QuietRelease =>
          /\ physFrames' = {}
          /\ ~targetPosition'.set]_vars

(* A step in which stopTracking runs: it alone turns isTracking off. *)
IsStop == isTracking /\ ~isTracking'

(* C21, as the claim states it: right after stopTracking neither a   *)
(* debounce timeout nor a re-engage timeout is pending.              *)
StopClearsTimers ==
    [][IsStop => (debounceTimers' = {} /\ reEngageTimers' = {})]_vars

(* C22, as the claim states it: of each kind of timer (re-engage      *)
(* cooldown, cursor-entry debounce, gaze grace window) at most one is *)
(* pending.                                                           *)
TimersCancelAndReplace ==
    /\ Cardinality(reEngageTimers) <= 1
    /\ Cardinality(debounceTimers) <= 1
    /\ Len(hist.graceLogs) <= 1

(* A step in which handleMouseMove sees the cursor enter the widget's *)
(* zone: the previous sample lay outside it, this one lies in it.     *)
IsEntryEdge ==
    /\ isTracking
    /\ prevCursorSideRef # pipPosition.side
    /\ prevCursorSideRef' = pipPosition.side

(* The step started a debounce timeout. *)
StartsDebounce == \E t \in debounceTimers' : t.id \notin TimerIds(debounceTimers)

(* C23: while the gaze zone equals the widget's side and nothing else *)
(* suppresses the trigger, an entry of the cursor starts the debounce *)
(* timeout if and only if a gaze timestamp is held and less than      *)
(* 1000 ms have passed since it was recorded.                         *)
GraceWindow ==
    [][(/\ IsEntryEdge
        /\ gazeSide = pipPosition.side
        /\ ~isUserControllingPip
        /\ ~isCursorHoveringPip
        /\ targetVertical = None)
       => (StartsDebounce <=>
              (gazeAtPipStartTimeRef # NoTime /\ gazeAtPipStartTimeRef < GraceMs))]_vars

(* The cursor entered less than a second after the gaze timestamp *)
(* was recorded, the gaze on the widget's side; its timeout is    *)
(* pending.                                                       *)
GraceWindowWitness ==
    /\ isTracking
    /\ gazeSide = pipPosition.side
    /\ gazeAtPipStartTimeRef # NoTime
    /\ gazeAtPipStartTimeRef < GraceMs
    /\ \E t \in debounceTimers : t.rem = DebounceMs

(* C24, as the claim states it: while the tracking is on, the gaze   *)
(* timestamp is held exactly when the gaze zone equals the widget's  *)
(* reported side, and it was recorded when the two became equal: the *)
(* time since it was recorded is the time for which they have been   *)
(* equal, with the tracking on, without a break.                     *)
GazeGraceBookkeeping ==
    isTracking =>
        /\ (gazeAtPipStartTimeRef # NoTime) <=> (gazeSide = pipPosition.side)
        /\ gazeAtPipStartTimeRef = hist.gazeAge

(* The vertical slot a command names, given the cursor's vertical zone *)
(* and the slot the widget is in.                                      *)
OppositeSlot(cursor, slot) ==
    CASE cursor = "top" -> "bottom"
      [] cursor = "bottom" -> "top"
      [] cursor = "center" /\ slot = "top" -> "bottom"
      [] cursor = "center" /\ slot = "bottom" -> "top"
      [] OTHER -> "center"

(* C25: the command's side is the opposite of the widget's reported   *)
(* side; its vertical slot is bottom for a cursor in the top zone,    *)
(* top for a cursor in the bottom zone, and for a cursor in the       *)
(* centre zone the toggle of the widget's slot (centre stays centre). *)
CommandContent ==
    [][IsCommand =>
          /\ ballSide' = OtherSide(pipPosition.side)
          /\ targetVertical' = OppositeSlot(cursorVertical, pipPosition.vertical)]_vars

(* A command sent the widget from the top left to the bottom right: *)
(* the cursor had entered in the centre zone.                        *)
CommandContentWitness ==
    /\ cursorMoveDebounceRef = NoId
    /\ debounceTimers = {}
    /\ cursorVertical = "center"
    /\ pipPosition = [side |-> "left", vertical |-> "top"]
    /\ ballSide = "right"
    /\ targetVertical = "bottom"
    /\ targetPosition.set

(* C26: while the tracking is off no debounce timeout is started and *)
(* no reposition command is issued, and no debounce timeout is       *)
(* pending, so one that was pending when the tracking stopped never  *)
(* fires.                                                            *)
NoRepositioningWhileOff ==
    /\ [](~isTracking => debounceTimers = {})
    /\ [][~isTracking => (~StartsDebounce /\ ~IsCommand)]_vars

(* stopTracking ran while a debounce timeout was pending; the tracking *)
(* is off, the cursor is still in the widget's zone, the timeout is    *)
(* gone and the widget has not been sent anywhere.                     *)
NoRepositioningWhileOffWitness ==
    /\ ~isTracking
    /\ hist.cutShort
    /\ cursorSide = pipPosition.side
    /\ debounceTimers = {}
    /\ targetVertical = None
    /\ ballSide = "left"

(* C27, as the claim states it: in every state each component of the *)
(* velocity has a magnitude of at most MAX_VELOCITY.                 *)
VelocityCap ==
    /\ Abs(velocity.x) <= Px(MAX_VELOCITY)
    /\ Abs(velocity.y) <= Px(MAX_VELOCITY)

(* A step in which handleResizeMove runs: a mousemove while resizing. *)
IsResizeMove ==
    /\ isResizing
    /\ isResizing'
    /\ lastMousePosRef' = lastMousePosRef
    /\ <<dimensions', position'>> # <<dimensions, position>>

(* C28, as the claim states it: after every resize move the position *)
(* lies within the bounds that getViewportBounds gives for the new   *)
(* dimensions, the anchor side and the viewport.                     *)
ResizeStaysInBounds ==
    [][(IsResizeMove /\ ~isDragging) =>
          LET b == getViewportBounds(ballSide, dimensions', viewport)
          IN  position' = clampPosition(position', b)]_vars

(* A step in which a drag or a resize starts. *)
IsGestureStart ==
    \/ ~isDragging /\ isDragging'
    \/ ~isResizing /\ isResizing'

(* C29: right after a drag start or a resize start the velocity is    *)
(* (0, 0), the physics has no target and no physics frame is          *)
(* scheduled.                                                         *)
GestureStartResets ==
    [][IsGestureStart =>
          /\ velocity' = [x |-> 0, y |-> 0]
          /\ ~targetPosition'.set
          /\ physFrames' = {}]_vars

(* A second drag has taken hold of the widget while it was on its way *)
(* to the spring target that the first drag's release on the right    *)
(* had set: the flight is off.                                        *)
GestureStartResetsWitness ==
    /\ isDragging
    /\ budget.gestures = 0
    /\ ballSide = "right"
    /\ position # [x |-> 0, y |-> 0]
    /\ dragStartPosRef.offsetX = position.x
    /\ dragStartPosRef.offsetY = position.y
    /\ velocity = [x |-> 0, y |-> 0]
    /\ ~targetPosition.set
    /\ physFrames = {}

(* C30, as the claim states it: while the tracking is on and the *)
(* latest detection threw or found no face, the gaze zone is     *)
(* null.                                                         *)
NoFaceYieldsNull == (isTracking /\ hist.blank) => gazeSide = None

(* C31: a run of detect that classifies nothing, because the video is  *)
(* not ready, no face is found or the detector throws, leaves gazeSide *)
(* and lastDefinitiveGazeSide as they were, and after it the next      *)
(* detect frame is scheduled under animationRef.                       *)
DetectionFailureNotFatal ==
    /\ [](hist.skipped => animationRef \in detectFrames)
    /\ [][hist'.skipped => /\ gazeSide' = gazeSide
                           /\ lastDefinitiveGazeSide' = lastDefinitiveGazeSide]_vars

(* While tracking with the gaze on the left, a frame found no face. *)
DetectionFailureWitness ==
    /\ isTracking
    /\ hist.skipped
    /\ hist.blank
    /\ gazeSide = "left"
    /\ lastDefinitiveGazeSide = "left"

(* C33: lastDefinitiveGazeSide, once left or right, never becomes null *)
(* again, and it changes only when a frame is classified left or       *)
(* right, to that frame's zone.                                        *)
StickyLastDefinitive ==
    [][/\ lastDefinitiveGazeSide # None => lastDefinitiveGazeSide' # None
       /\ lastDefinitiveGazeSide' # lastDefinitiveGazeSide =>
              /\ inflight' = inflight - 1
              /\ hist'.gazeX # <<>>
              /\ ClassifyGaze(hist'.gazeX[1]) = lastDefinitiveGazeSide'
              /\ gazeSide' = lastDefinitiveGazeSide']_vars

(* After a stop and a restart the gaze is in the centre zone and the *)
(* last definitive side is still the one read before the stop.       *)
StickyLastDefinitiveWitness ==
    /\ isTracking
    /\ budget.sessions = 0
    /\ hist.gazeX # <<>>
    /\ gazeSide = None
    /\ lastDefinitiveGazeSide = "right"

(* startTracking's catch block ran, lines 289-292. *)
IsStartFailure == isLoading /\ ~isLoading' /\ ~isTracking'

(* C32: after startTracking has failed an error message is set,       *)
(* isTracking and isLoading are false and no detection loop is        *)
(* running: no detect frame is scheduled and no estimateFaces call is *)
(* in flight.                                                         *)
StartFailureLeavesIdle ==
    [][IsStartFailure => /\ error'
                         /\ ~isTracking'
                         /\ ~isLoading'
                         /\ detectFrames' = {}
                         /\ inflight' = 0]_vars

(* C34: after every resize move the widget's top-right corner is on *)
(* the screen where handleResizeStart found it.                     *)
ResizeKeepsAnchor ==
    [][IsResizeMove =>
          AnchorCorner(ballSide', position', dimensions', viewport')
              = [x |-> resizeStartRef.anchorX, y |-> resizeStartRef.anchorY]]_vars

(* The screen x of the widget's left edge, from the wrapper's style *)
(* (lines 763-790).                                                 *)
ScreenLeft(side, pos, dims, vp) == AnchorCorner(side, pos, dims, vp).x - dims.width

(* The position the side-change effect finds: a drag end has clamped *)
(* it before the render (lines 478-480).                             *)
PositionAtEffect ==
    IF isDragging
    THEN clampPosition(position, getViewportBounds(ballSide, dimensions, viewport))
    ELSE position

(* C35: when the anchor side changes, the widget's left edge has the  *)
(* same screen x under the new side with the converted position as it *)
(* had under the old side with the old position, and y is unchanged.  *)
SideChangeKeepsPlace ==
    [][ballSide' # ballSide =>
          /\ ScreenLeft(ballSide', position', dimensions', viewport')
                 = ScreenLeft(ballSide, PositionAtEffect, dimensions, viewport)
          /\ position'.y = PositionAtEffect.y]_vars

(* A command has just taken the widget to the right anchor: its   *)
(* converted position lies a screen's width away from the corner. *)
SideChangeKeepsPlaceWitness ==
    /\ ballSide = "right"
    /\ pipPosition.side = "left"
    /\ targetPosition.set
    /\ position.x < 0
    /\ ScreenLeft("right", position, dimensions, viewport)
           = ScreenLeft("left", Remapped("right", "left", position), dimensions, viewport)

(* A step in which handleResize runs: the window changed its size. *)
IsViewportResize == viewport' # viewport

(* The stored position does not lie within the bounds of the viewport vp. *)
OutsideBounds(vp) ==
    position # clampPosition(position, getViewportBounds(ballSide, dimensions, vp))

(* C36, as the claim states it: when the window is resized with no  *)
(* physics frame scheduled and no gesture active, and the position  *)
(* lies outside the bounds of the new viewport, handleResize leaves *)
(* a physics frame scheduled.  The widget has its first size: the   *)
(* resize handle was never pressed.                                 *)
ViewportResizeStartsPhysics ==
    [][(/\ IsViewportResize
        /\ animationFrameRef = NoId
        /\ ~isDragging
        /\ ~isResizing
        /\ budget.handles = MaxHandles
        /\ OutsideBounds(viewport'))
       => physFrames' # {}]_vars

(* C37: a resize of the window that finds a physics frame scheduled   *)
(* leaves the velocity, the target and the scheduled frame as they    *)
(* were; of the widget's state it changes the position only, to the   *)
(* position clamped into the bounds of the new viewport.              *)
ViewportResizeFrame ==
    [][(IsViewportResize /\ animationFrameRef # NoId) =>
          /\ velocity' = velocity
          /\ targetPosition' = targetPosition
          /\ physFrames' = physFrames
          /\ animationFrameRef' = animationFrameRef
          /\ position' = clampPosition(position,
                             getViewportBounds(ballSide, dimensions, viewport'))
          /\ UNCHANGED <<dimensions, isDragging, isResizing, prevSideRef,
                         dragStartPosRef, lastMousePosRef, resizeStartRef,
                         policyVars, trackVars>>]_vars

(* The window shrank under a widget in flight near its upper edge: the *)
(* position was clamped onto the new bound, the velocity kept.         *)
ViewportResizeFrameWitness ==
    /\ hist.inFlight
    /\ viewport = Compact
    /\ physFrames # {}
    /\ velocity # [x |-> 0, y |-> 0]
    /\ position.y = getViewportBounds(ballSide, dimensions, viewport).minY
    /\ position.y > getViewportBounds(ballSide, dimensions, Desktop).minY

(* The four guards of the trigger that the claim names: tracking on, *)
(* the control with the policy, no move pending, the pointer not     *)
(* over the widget.                                                  *)
GuardsOfTrigger == <<isTracking, isUserControllingPip, targetVertical, isCursorHoveringPip>>

(* C38: when a debounced command fires, tracking is on, the user is  *)
(* not in control, no move is pending and the pointer is not over    *)
(* the widget; and a step that changes any of the four while a       *)
(* debounce timeout is pending leaves none pending.                  *)
CommandUnderGuards ==
    /\ [][IsCommand => GuardsOfTrigger = <<TRUE, FALSE, None, FALSE>>]_vars
    /\ [][(debounceTimers # {} /\ GuardsOfTrigger' # GuardsOfTrigger)
          => debounceTimers' = {}]_vars

(* A command has just fired with the four guards as the trigger *)
(* found them, after an earlier drag and its cooldown.          *)
CommandUnderGuardsWitness ==
    /\ isTracking
    /\ ~isUserControllingPip
    /\ ~isCursorHoveringPip
    /\ cursorMoveDebounceRef = NoId
    /\ ballSide # pipPosition.side
    /\ targetVertical # None
    /\ budget.gestures = 0
    /\ budget.entries = 0

(* The detection loops alive: each is either a scheduled detect frame *)
(* or an estimateFaces call in flight.                                *)
DetectionLoops == Cardinality(detectFrames) + inflight

(* C39, as the claim states it: at most one detection loop exists at *)
(* any time.                                                         *)
AtMostOneDetectionLoop == DetectionLoops <= 1

(* C40, as the claim states it: with the inputs at an end the frames *)
(* of the physics come to a state with no frame scheduled, the       *)
(* velocity (0, 0) and no target, also when the window was resized   *)
(* after the target was set.                                         *)
AnimationTerminates == <>(AtRest /\ ~targetPosition.set)

====
